---- MODULE Spec2Model ----
(***************************************************************************)
(* Data-retrieval and provenance engine of the SEER and PhysioNet MCP      *)
(* tools: SeerClient (apps/mcp-tools/seer/src/seer-client.ts) and          *)
(* PhysioNetClient (apps/mcp-tools/physionet/src/index.ts).                *)
(*                                                                         *)
(* A call of query / fetch / catalog is an async function: the code        *)
(* between two awaits runs atomically, and other calls, the clock and a    *)
(* process crash interleave at the awaits.  The model splits every call at *)
(* the awaits that write a cache file (fs.writeJson / fs.writeFile are not *)
(* atomic: the file is truncated first and filled afterwards).             *)
(*                                                                         *)
(* Optional values (a field that may be undefined) are sequences of length *)
(* 0 or 1: None and Some(x).                                               *)
(***************************************************************************)
EXTENDS Integers, Sequences, FiniteSets, TLC

VARIABLES
    now,            \* Date.now(), in milliseconds
    ticks,          \* number of clock advances so far (bounds the run)
    server,         \* which MCP server this process is: its client and cache directory
    apiKey,         \* SeerClient.apiKey is set (mockMode = ~apiKey)
    release,        \* index of the deployed catalog release (version bumps)
    endpointsFile,  \* <cacheDir>/endpoints.json of SeerClient
    rowCache,       \* <cacheDir>/<md5(url)>.json of SeerClient, by cache key
    datasetsFile,   \* <cacheDir>/datasets.json of PhysioNetClient
    dataFiles,      \* <cacheDir>/<dataset.id>/<file.name> of PhysioNetClient
    task,           \* the calls: position, locals, result (by task)
    metadataLoaded,   \* NHANES server: the flag of ensureMetadataLoaded
    fileMetadata,     \* NHANESMetadataLoader.fileMetadata, by file key
    variableMetadata, \* NHANESMetadataLoader.variableMetadata, by file key
    loads,            \* number of loadAllMetadata invocations so far
    nhCall,           \* the NHANES tool calls: position, request, result
    hypothesis, result, isRunning, error,     \* App: state of the research flow
    literatureHypothesis, literatureResult,   \* App: state of the literature flow
    isLiteratureRunning, literatureError,
    activeTab,          \* App: the tab shown
    researchRequest,    \* the body of the /api/research request in flight
    literatureRequest,  \* the body of the /api/literature request in flight
    settled,            \* the flows of which a run has settled
    alerts              \* number of window.alert calls so far

\* the state of the NHANES server
nhanesVars == <<metadataLoaded, fileMetadata, variableMetadata, loads, nhCall>>

\* the state of the frontend
appVars == <<hypothesis, result, isRunning, error, literatureHypothesis, literatureResult,
             isLiteratureRunning, literatureError, activeTab, researchRequest,
             literatureRequest, settled, alerts>>

vars == <<now, ticks, server, apiKey, release, endpointsFile, rowCache,
          datasetsFile, dataFiles, task, nhanesVars, appVars>>

----------------------------------------------------------------------------
(* Bounds of the model                                                     *)

\* clock advances in one run
MaxTicks == 1
\* rows of a live SEER response
MaxLiveRows == 2
\* stands for the cap 1000 of generateMockData (seer-client.ts:222)
MockSampleCap == 2
\* stands for the cap 10000 of generateSampleFileData (index.ts:568)
FileSampleCap == 1
\* catalog releases after the first one
MaxReleases == 1

\* the calls of Spec follow one another; two calls overlap in SpecConc
Tasks == {"t1"}
ConcTasks == {"t1", "t2"}

\* outcomes of one Math.random() draw, as far as a row shows them
RandVals == {0, 1}

----------------------------------------------------------------------------
(* Helpers                                                                 *)

None == <<>>
Some(x) == <<x>>
IsSome(o) == Len(o) = 1
Get(o) == o[1]

Min(a, b) == IF a < b THEN a ELSE b
Max(a, b) == IF a > b THEN a ELSE b

\* Array.prototype.slice(start, end): negative indices count from the end
SliceIndex(i, n) == IF i < 0 THEN Max(n + i, 0) ELSE Min(i, n)
Slice(s, start, end) ==
    LET from == SliceIndex(start, Len(s))
        to   == SliceIndex(end, Len(s))
    IN  IF to <= from THEN <<>> ELSE SubSeq(s, from + 1, to)

SeqToSet(s) == {s[i] : i \in 1..Len(s)}

\* crypto.createHash('sha256').update(JSON.stringify(data)).digest('hex'):
\* the digest stands for the serialized value it was computed from
Sha256Of(data) == [sha256 |-> data]

----------------------------------------------------------------------------
(* Files.  A file is None (absent) or Some of a record; a file whose write *)
(* has begun and not ended holds a truncated text.                         *)

\* fs.writeJson / fs.writeFile, first half: open(path, 'w') truncates
TruncatedFile(t) == Some([mtime |-> t, complete |-> FALSE, content |-> <<>>, rel |-> release])
\* fs.writeJson / fs.writeFile, second half: the whole text is on disk
WrittenFile(t, content) == Some([mtime |-> t, complete |-> TRUE, content |-> content, rel |-> release])

\* fs.pathExists
PathExists(f) == IsSome(f)
\* Date.now() - stats.mtime.getTime()
Age(f) == now - Get(f).mtime
\* fs.readJson: JSON.parse of a truncated text throws
ReadJsonThrows(f) == ~Get(f).complete
ReadJson(f) == Get(f).content

JsonParseError == <<"Unexpected end of JSON input">>

----------------------------------------------------------------------------
(* SeerClient: static definitions                                          *)

CatalogTtl == 24 * 60 * 60 * 1000
RowCacheTtl == 60 * 60 * 1000
SeerDefaultLimit == 10000

\* the enum_values of the available_params of getAvailableEndpoints
SiteValues == {"breast", "lung", "prostate", "colorectal", "melanoma"}
AgeGroupValues == {"0-19", "20-49", "50-64", "65+", "all"}
SexValues == {"male", "female", "both"}
RaceValues == {"white", "black", "asian", "hispanic", "other", "all"}

\* getAvailableEndpoints: the endpoint definitions (name, required_params,
\* data_format, description, and the enum_values of the available_params
\* of type 'enum')
SeerEndpoints ==
    << [name |-> "incidence",  required_params |-> <<"site">>, data_format |-> "json",
        description |-> "Cancer incidence data by various demographics and tumor characteristics",
        enum_values |-> [site |-> SiteValues, age_group |-> AgeGroupValues,
                         sex |-> SexValues, race |-> RaceValues,
                         stage |-> {"localized", "regional", "distant", "unknown", "all"}]],
       [name |-> "mortality",  required_params |-> <<"site">>, data_format |-> "json",
        description |-> "Cancer mortality data by demographics",
        enum_values |-> [site |-> SiteValues, age_group |-> AgeGroupValues,
                         sex |-> SexValues, race |-> RaceValues]],
       [name |-> "survival",   required_params |-> <<"site">>, data_format |-> "json",
        description |-> "Cancer survival statistics",
        enum_values |-> [site |-> SiteValues,
                         stage |-> {"localized", "regional", "distant", "all"}]],
       [name |-> "population", required_params |-> <<"year">>, data_format |-> "json",
        description |-> "Population statistics for incidence rate calculations",
        enum_values |-> [age_group |-> AgeGroupValues, sex |-> SexValues,
                         race |-> RaceValues]] >>

\* the version literal of createResult, as deployed in release r
SeerVersion(r) == <<"November 2021", r>>

\* query.params || {}
EmptyParams == [x \in {} |-> ""]

\* normalizeQuery: a || b takes b when a is undefined or falsy (0)
SeerNormalizeQuery(query) ==
    [endpoint |-> query.endpoint,
     params   |-> IF IsSome(query.params) THEN Get(query.params) ELSE EmptyParams,
     limit    |-> IF IsSome(query.limit) /\ Get(query.limit) # 0
                  THEN Get(query.limit) ELSE SeerDefaultLimit,
     offset   |-> IF IsSome(query.offset) /\ Get(query.offset) # 0
                  THEN Get(query.offset) ELSE 0,
     dry_run  |-> IF IsSome(query.dry_run) THEN Get(query.dry_run) ELSE FALSE]

\* endpoints.find(ep => ep.name === normalizedQuery.endpoint)
FindEndpoint(endpoints, name) ==
    LET found == SelectSeq(endpoints, LAMBDA ep : ep.name = name)
    IN  IF found = <<>> THEN None ELSE Some(Head(found))

\* endpoint.required_params.filter(param => !(param in normalizedQuery.params))
MissingParams(endpoint, nq) ==
    SelectSeq(endpoint.required_params, LAMBDA param : param \notin DOMAIN nq.params)

\* query, lines 34-49: the error thrown before any row is estimated or
\* fetched, or None
SeerValidate(endpoints, nq) ==
    LET endpoint == FindEndpoint(endpoints, nq.endpoint)
    IN  IF ~IsSome(endpoint)
        THEN Some(<<"Unknown endpoint: ", nq.endpoint>>)
        ELSE IF MissingParams(Get(endpoint), nq) # <<>>
        THEN Some(<<"Missing required parameters: ", MissingParams(Get(endpoint), nq)>>)
        ELSE None

\* estimateRows: floor(base * max(0.1, 1 - 0.2 * filterCount)), in tenths
SeerBaseEstimate(endpoint) ==
    CASE endpoint = "incidence"  -> 50000
      [] endpoint = "mortality"  -> 25000
      [] endpoint = "survival"   -> 10000
      [] endpoint = "population" -> 100000
      [] OTHER -> 10000
EstimateRows(nq) ==
    LET filterCount == Cardinality(DOMAIN nq.params)
    IN  (SeerBaseEstimate(nq.endpoint) * Max(1, 10 - 2 * filterCount)) \div 10

\* the cache key of fetchData: md5 of the URL, which is built from the
\* endpoint, the params and the api key (not from limit, offset or version)
SeerCacheKey(nq) == <<nq.endpoint, nq.params>>

\* generateMockData: one record; every Math.random()-derived field of the
\* record is the field rand, and site is taken from the params when given
MockRecord(nq, i, r) ==
    IF nq.endpoint = "population"
    THEN [record_id |-> i, rand |-> r]
    ELSE [record_id |-> i, rand |-> r,
          site |-> IF "site" \in DOMAIN nq.params THEN nq.params["site"] ELSE "breast"]

\* generateMockData: sampleSize = Math.min(query.limit, 1000) records
MockSampleSize(nq) == Max(0, Min(nq.limit, MockSampleCap))
\* the row-sets generateMockData can return, one per outcome of Math.random
MockDataSets(nq) ==
    { [i \in 1..MockSampleSize(nq) |-> MockRecord(nq, i, draw[i])] :
        draw \in [1..MockSampleSize(nq) -> RandVals] }

\* the row-sets a live SEER response can carry
LiveRow(i) == [record_id |-> i, rand |-> 0, site |-> "breast"]
LiveDataSets == { [i \in 1..n |-> LiveRow(i)] : n \in 0..MaxLiveRows }

\* outcomes of `await fetch(url)` and of decoding the body
LiveOutcomes == {"ok", "http_error", "transport_error", "parse_error"}

\* applyPagination: data.slice(offset, offset + limit)
SeerApplyPagination(data, nq) == Slice(data, nq.offset, nq.offset + nq.limit)

\* Object.keys(data[0])
ObjectKeys(row) == DOMAIN row

NoDataWarning == "No data found matching the specified criteria"

\* createResult with both counts filled in whatever dry_run says
SeerCreateResult_BothCounts(data, totalRows, nq, requestTime, endpoint) ==
    [data           |-> IF nq.dry_run THEN None ELSE Some(data),
     estimated_rows |-> Some(totalRows),
     actual_rows    |-> Some(Len(data)),
     provenance     |-> [source |-> "SEER",
                         dataset |-> <<nq.endpoint, endpoint.description>>,
                         version |-> SeerVersion(release),
                         license |-> "Public Domain (U.S. Government)",
                         request_params |-> Some(nq),
                         request_timestamp |-> requestTime,
                         sha256_hash |-> Some(Sha256Of(data))],
     columns        |-> IF Len(data) > 0 THEN DOMAIN data[1] ELSE {},
     warnings       |-> IF Len(data) = 0 THEN Some(<<"No data found matching the specified criteria">>) ELSE None,
     errors         |-> None]

\* createResult deriving the no-data warning of a dry run from the estimate
SeerCreateResult_WarnsOnEstimate(data, totalRows, nq, requestTime, endpoint) ==
    [data           |-> IF nq.dry_run THEN None ELSE Some(data),
     estimated_rows |-> IF nq.dry_run THEN Some(totalRows) ELSE None,
     actual_rows    |-> IF nq.dry_run THEN None ELSE Some(Len(data)),
     provenance     |-> [source |-> "SEER",
                         dataset |-> <<nq.endpoint, endpoint.description>>,
                         version |-> SeerVersion(release),
                         license |-> "Public Domain (U.S. Government)",
                         request_params |-> Some(nq),
                         request_timestamp |-> requestTime,
                         sha256_hash |-> Some(Sha256Of(data))],
     columns        |-> IF Len(data) > 0 THEN ObjectKeys(data[1]) ELSE {},
     warnings       |-> IF (IF nq.dry_run THEN totalRows = 0 ELSE Len(data) = 0)
                        THEN Some(<<NoDataWarning>>) ELSE None,
     errors         |-> None]

\* createResult
SeerCreateResult(data, totalRows, nq, requestTime, endpoint) ==
    [data           |-> IF nq.dry_run THEN None ELSE Some(data),
     estimated_rows |-> IF nq.dry_run THEN Some(totalRows) ELSE None,
     actual_rows    |-> IF nq.dry_run THEN None ELSE Some(Len(data)),
     provenance     |-> [source |-> "SEER",
                         dataset |-> <<nq.endpoint, endpoint.description>>,
                         version |-> SeerVersion(release),
                         license |-> "Public Domain (U.S. Government)",
                         request_params |-> Some(nq),
                         request_timestamp |-> requestTime,
                         sha256_hash |-> Some(Sha256Of(data))],
     columns        |-> IF Len(data) > 0 THEN ObjectKeys(data[1]) ELSE {},
     warnings       |-> IF Len(data) = 0 THEN Some(<<NoDataWarning>>) ELSE None,
     errors         |-> None]

\* createErrorResult
SeerCreateErrorResult(query, requestTime, errorText) ==
    [data           |-> None,
     estimated_rows |-> None,
     actual_rows    |-> None,
     provenance     |-> [source |-> "SEER",
                         dataset |-> <<"N/A">>,
                         version |-> <<"N/A">>,
                         license |-> "Public Domain (U.S. Government)",
                         request_params |-> Some(query),
                         request_timestamp |-> requestTime,
                         sha256_hash |-> None],
     columns        |-> {},
     warnings       |-> None,
     errors         |-> Some(<<errorText>>)]

----------------------------------------------------------------------------
(* PhysioNetClient: static definitions                                     *)

CatalogDefaultLimit == 50
FetchDefaultLimit == 10000
DefaultSampleCount == 1000

\* an allowlist that lacks a dataset of the catalog
Allowlist_WithoutMitdb ==
    {"ptbdb", "eegmmidb", "apnea-ecg", "challenge-2017", "mimic-cxr-jpg", "chbmit"}

\* constructor: this.allowlist
Allowlist == {"mitdb", "ptbdb", "eegmmidb", "apnea-ecg",
              "challenge-2017", "mimic-cxr-jpg", "chbmit"}

\* the version literal of the catalog entries, as deployed in release r
DatasetVersion(r) == <<"1.0.0", r>>

\* the search terms of the model, and per dataset (field matches) those that
\* occur in its lower-cased title, description or tags
SearchTerms == {"ecg", "sleep"}

\* generateSampleDatasets
GenerateSampleDatasets(r) ==
    << [id |-> "mitdb", title |-> "MIT-BIH Arrhythmia Database", category |-> "ecg",
        version |-> DatasetVersion(r), publication_date |-> "2001-06-05",
        license |-> "Open Data Commons Attribution License v1.0",
        matches |-> {"ecg"}, allowlisted |-> TRUE,
        files |-> << [name |-> "100.dat", format |-> "binary", sample_count |-> 650000,
                      columns |-> Some(<<"MLII", "V5">>)],
                     [name |-> "100.atr", format |-> "annotation", sample_count |-> 2273,
                      columns |-> None] >>],
       [id |-> "ptbdb", title |-> "PTB Diagnostic ECG Database", category |-> "ecg",
        version |-> DatasetVersion(r), publication_date |-> "2004-07-13",
        license |-> "Open Data Commons Attribution License v1.0",
        matches |-> {"ecg"}, allowlisted |-> TRUE,
        files |-> << [name |-> "s0010_re.dat", format |-> "binary", sample_count |-> 115000,
                      columns |-> Some(<<"i", "ii", "iii", "avr", "avl", "avf", "v1", "v2",
                                         "v3", "v4", "v5", "v6", "vx", "vy", "vz">>)] >>],
       [id |-> "eegmmidb", title |-> "EEG Motor Movement/Imagery Dataset", category |-> "eeg",
        version |-> DatasetVersion(r), publication_date |-> "2004-08-18",
        license |-> "Open Data Commons Attribution License v1.0",
        matches |-> {}, allowlisted |-> TRUE,
        files |-> << [name |-> "S001R01.edf", format |-> "edf", sample_count |-> 19200,
                      columns |-> Some(<<"Fc5", "Fc3", "Fc1", "Fcz", "Fc2", "Fc4", "Fc6">>)] >>],
       [id |-> "apnea-ecg", title |-> "Apnea-ECG Database", category |-> "ecg",
        version |-> DatasetVersion(r), publication_date |-> "2000-09-14",
        license |-> "Open Data Commons Attribution License v1.0",
        matches |-> {"ecg", "sleep"}, allowlisted |-> TRUE,
        files |-> << [name |-> "a01.dat", format |-> "binary", sample_count |-> 2880000,
                      columns |-> Some(<<"ECG">>)],
                     [name |-> "a01.apn", format |-> "annotation", sample_count |-> 480,
                      columns |-> None] >>] >>

\* normalizeCatalogQuery
NormalizeCatalogQuery(query) ==
    [query    |-> IF IsSome(query.query) THEN Get(query.query) ELSE "",
     category |-> IF IsSome(query.category) THEN Get(query.category) ELSE "all",
     limit    |-> IF IsSome(query.limit) /\ Get(query.limit) # 0
                  THEN Get(query.limit) ELSE CatalogDefaultLimit,
     offset   |-> IF IsSome(query.offset) /\ Get(query.offset) # 0
                  THEN Get(query.offset) ELSE 0,
     dry_run  |-> IF IsSome(query.dry_run) THEN Get(query.dry_run) ELSE FALSE]

\* normalizeFetchQuery
NormalizeFetchQuery(query) ==
    [dataset |-> query.dataset,
     files   |-> IF IsSome(query.files) THEN Get(query.files) ELSE <<>>,
     columns |-> IF IsSome(query.columns) THEN Get(query.columns) ELSE <<>>,
     limit   |-> IF IsSome(query.limit) /\ Get(query.limit) # 0
                 THEN Get(query.limit) ELSE FetchDefaultLimit,
     offset  |-> IF IsSome(query.offset) /\ Get(query.offset) # 0
                 THEN Get(query.offset) ELSE 0,
     dry_run |-> IF IsSome(query.dry_run) THEN Get(query.dry_run) ELSE FALSE]

\* filterDatasets
FilterDatasets(datasets, nq) ==
    LET allowed == SelectSeq(datasets, LAMBDA d : d.allowlisted)
        inCat   == IF nq.category # "all"
                   THEN SelectSeq(allowed, LAMBDA d : d.category = nq.category)
                   ELSE allowed
    IN  IF nq.query # ""
        THEN SelectSeq(inCat, LAMBDA d : nq.query \in d.matches)
        ELSE inCat

\* applyPagination / applyDataPagination: items.slice(offset, offset + limit)
PhysApplyPagination(items, nq) == Slice(items, nq.offset, nq.offset + nq.limit)

\* estimateDatasetCount
EstimateDatasetCount(nq) == Len(FilterDatasets(GenerateSampleDatasets(release), nq))

\* getDatasetMetadata: datasets.find(d => d.id === datasetId)
FindDataset(datasetId) ==
    LET found == SelectSeq(GenerateSampleDatasets(release), LAMBDA d : d.id = datasetId)
    IN  IF found = <<>> THEN None ELSE Some(Head(found))

\* fetch with getDatasetMetadata moved before the allowlist check
FetchResolve_MetadataFirst(nq) ==
    IF ~IsSome(FindDataset(nq.dataset))
    THEN [err |-> Some(<<"Dataset '", nq.dataset, "' not found">>),
          fx |-> {"metadata"}, dataset |-> None]
    ELSE IF nq.dataset \notin Allowlist
    THEN [err |-> Some(<<"Dataset '", nq.dataset, "' is not in the allowlist">>),
          fx |-> {"metadata"}, dataset |-> None]
    ELSE [err |-> None, fx |-> {"metadata"}, dataset |-> FindDataset(nq.dataset)]

\* fetch, lines 259-266: the allowlist check, then getDatasetMetadata.
\* err is the error thrown (or None), fx what was done before it
FetchResolve(nq) ==
    IF nq.dataset \notin Allowlist
    THEN [err |-> Some(<<"Dataset '", nq.dataset, "' is not in the allowlist">>),
          fx |-> {}, dataset |-> None]
    ELSE IF ~IsSome(FindDataset(nq.dataset))
    THEN [err |-> Some(<<"Dataset '", nq.dataset, "' not found">>),
          fx |-> {"metadata"}, dataset |-> None]
    ELSE [err |-> None, fx |-> {"metadata"}, dataset |-> FindDataset(nq.dataset)]

\* fetchDatasetData, lines 527-529: targetFiles
TargetFiles(dataset, nq) ==
    IF Len(nq.files) > 0
    THEN SelectSeq(dataset.files, LAMBDA file : file.name \in SeqToSet(nq.files))
    ELSE SelectSeq(dataset.files,
                   LAMBDA file : file.format \in {"binary", "csv", "tsv"})

\* estimateDatasetRows
RECURSIVE SumSampleCounts(_)
SumSampleCounts(files) ==
    IF files = <<>> THEN 0
    ELSE (IF Head(files).sample_count = 0 THEN DefaultSampleCount
          ELSE Head(files).sample_count) + SumSampleCounts(Tail(files))
\* estimateDatasetRows answering the default sample count when no file is
\* selected
EstimateDatasetRows_NeverZero(dataset, nq) ==
    Max(DefaultSampleCount,
        SumSampleCounts(
            IF Len(nq.files) > 0
            THEN SelectSeq(dataset.files, LAMBDA file : file.name \in SeqToSet(nq.files))
            ELSE SelectSeq(dataset.files, LAMBDA file : file.format \in {"binary", "csv"})))

\* estimateDatasetRows: the sum of sample_count || 1000 over the files
EstimateDatasetRows(dataset, nq) ==
    SumSampleCounts(
        IF Len(nq.files) > 0
        THEN SelectSeq(dataset.files, LAMBDA file : file.name \in SeqToSet(nq.files))
        ELSE SelectSeq(dataset.files, LAMBDA file : file.format \in {"binary", "csv"}))

\* loadFileData, line 550: the cache file of (dataset, file).  The regular
\* expression /\\.[^.]+$/ needs a backslash in the name, so the name is kept
DataFileKey(dataset, file) == <<dataset.id, file.name>>
DataFileKeys == {"mitdb"} \X {"100.dat", "100.atr"}

\* generateSampleFileData, lines 568-571: sample size and header
FileSampleSize(file) ==
    Min(IF file.sample_count = 0 THEN DefaultSampleCount ELSE file.sample_count,
        FileSampleCap)
FileColumns(file) == IF IsSome(file.columns) THEN Get(file.columns) ELSE <<"signal">>
FileHeaders(file) == <<"time">> \o FileColumns(file)

\* generateSampleFileData, lines 577-600: row i, its Math.random() noise
\* being draw
SampleRow(file, i, draw) ==
    [c \in SeqToSet(FileHeaders(file)) |-> IF c = "time" THEN i - 1 ELSE draw]

\* rows.join('\\n'): the separator is a backslash followed by n, not a line
\* break, so the text written is one physical line holding every row.
\* A text is the sequence of its physical lines, a line the sequence of the
\* rows joined into it
JoinRows(rows) == << rows >>

\* the texts generateSampleFileData can write, one per outcome of Math.random
SampleFileTexts(file) ==
    { JoinRows(<<FileHeaders(file)>> \o
               [i \in 1..FileSampleSize(file) |-> SampleRow(file, i, draw[i])]) :
        draw \in [1..FileSampleSize(file) -> RandVals] }

\* readCsvFile: csv-parser takes the first physical line as the header and
\* emits one row per further line (Number() of a numeric cell)
ReadCsvFile(f) ==
    LET lines == Get(f).content
    IN  [i \in 1..(Len(lines) - 1) |-> lines[i + 1][1]]

\* projectColumns
ProjectColumns(row, columns) ==
    [c \in SeqToSet(columns) \cap DOMAIN row |-> row[c]]

\* loadFileData, lines 557-564: the rows read from the cache file, projected
LoadedRows(f, nq) ==
    LET data == ReadCsvFile(f)
    IN  IF Len(nq.columns) > 0
        THEN [i \in 1..Len(data) |-> ProjectColumns(data[i], nq.columns)]
        ELSE data

\* createCatalogResult
CreateCatalogResult(datasets, totalCount, nq, requestTime) ==
    [datasets        |-> IF nq.dry_run THEN None ELSE Some(datasets),
     estimated_count |-> IF nq.dry_run THEN Some(totalCount) ELSE None,
     actual_count    |-> IF nq.dry_run THEN None ELSE Some(Len(datasets)),
     provenance      |-> [source |-> "PhysioNet", dataset |-> <<"Catalog">>,
                          version |-> <<"1.0.0">>,
                          license |-> "Various (see individual datasets)",
                          request_params |-> Some(nq),
                          request_timestamp |-> requestTime,
                          sha256_hash |-> None],
     errors          |-> None]

\* createCatalogErrorResult
CreateCatalogErrorResult(query, requestTime, errorText) ==
    [datasets        |-> None,
     estimated_count |-> None,
     actual_count    |-> None,
     provenance      |-> [source |-> "PhysioNet", dataset |-> <<"N/A">>,
                          version |-> <<"N/A">>, license |-> "N/A",
                          request_params |-> Some(query),
                          request_timestamp |-> requestTime,
                          sha256_hash |-> None],
     errors          |-> Some(<<errorText>>)]

\* createFetchResult returning the (empty) row-set on a dry run too
CreateFetchResult_DataOnDryRun(data, totalRows, nq, requestTime, dataset) ==
    [data           |-> Some(data),
     estimated_rows |-> IF nq.dry_run THEN Some(totalRows) ELSE None,
     actual_rows    |-> IF nq.dry_run THEN None ELSE Some(Len(data)),
     provenance     |-> [source |-> "PhysioNet",
                         dataset |-> <<dataset.id, dataset.title>>,
                         version |-> dataset.version,
                         license |-> dataset.license,
                         request_params |-> Some(nq),
                         request_timestamp |-> requestTime,
                         sha256_hash |-> Some(Sha256Of(data))],
     columns        |-> IF Len(data) > 0 THEN ObjectKeys(data[1]) ELSE SeqToSet(nq.columns),
     warnings       |-> IF Len(data) = 0 THEN Some(<<NoDataWarning>>) ELSE None,
     errors         |-> None]

\* createFetchResult
CreateFetchResult(data, totalRows, nq, requestTime, dataset) ==
    [data           |-> IF nq.dry_run THEN None ELSE Some(data),
     estimated_rows |-> IF nq.dry_run THEN Some(totalRows) ELSE None,
     actual_rows    |-> IF nq.dry_run THEN None ELSE Some(Len(data)),
     provenance     |-> [source |-> "PhysioNet",
                         dataset |-> <<dataset.id, dataset.title>>,
                         version |-> dataset.version,
                         license |-> dataset.license,
                         request_params |-> Some(nq),
                         request_timestamp |-> requestTime,
                         sha256_hash |-> Some(Sha256Of(data))],
     columns        |-> IF Len(data) > 0 THEN ObjectKeys(data[1]) ELSE SeqToSet(nq.columns),
     warnings       |-> IF Len(data) = 0 THEN Some(<<NoDataWarning>>) ELSE None,
     errors         |-> None]

\* createFetchErrorResult
CreateFetchErrorResult(query, requestTime, errorText) ==
    [data           |-> None,
     estimated_rows |-> None,
     actual_rows    |-> None,
     provenance     |-> [source |-> "PhysioNet", dataset |-> <<"N/A">>,
                         version |-> <<"N/A">>, license |-> "N/A",
                         request_params |-> Some(query),
                         request_timestamp |-> requestTime,
                         sha256_hash |-> None],
     columns        |-> {},
     warnings       |-> None,
     errors         |-> Some(<<errorText>>)]

----------------------------------------------------------------------------
(* Calls.  task[p] holds the position (pc) of call p, its locals and, once *)
(* it has returned, its result.  fx, reads, gen and prev are bookkeeping   *)
(* of what the call did: the effects it performed, the cache files it read *)
(* (with their age and state), the output of the synthetic generator it    *)
(* invoked, and the result of the same task's previous call when that call *)
(* had the same arguments.                                                 *)

IdleTask ==
    [pc |-> "idle", op |-> "none", query |-> None, nq |-> None, start |-> 0,
     desc |-> None, pending |-> None, todo |-> <<>>, acc |-> <<>>,
     fx |-> {}, reads |-> {}, gen |-> None, result |-> None, prev |-> None,
     attempts |-> 0]

\* a call enters: const startTime = new Date().toISOString()
Enter(p, op, query, nq) ==
    [IdleTask EXCEPT
        !.op = op, !.query = Some(query), !.nq = Some(nq), !.start = now,
        !.prev = IF task[p].pc = "done" /\ task[p].op = op /\ task[p].query = Some(query)
                 THEN task[p].result
                 ELSE None]

\* a call returns res
Return(t, res) ==
    [t EXCEPT !.pc = "done", !.result = Some(res), !.start = 0,
              !.desc = None, !.pending = None, !.todo = <<>>, !.acc = <<>>]

\* the record of one read of a cache file f; hit tells a file the lookup
\* found from the file the call has just written itself
ReadOf(cache, f, hit) ==
    [cache |-> cache, hit |-> hit, age |-> Age(f), complete |-> Get(f).complete,
     rel |-> Get(f).rel, cur |-> release]

Did(t, effects) == [t EXCEPT !.fx = @ \cup effects]
HasRead(t, cache, f, hit) == [t EXCEPT !.reads = @ \cup {ReadOf(cache, f, hit)}]

CanStart(p) == task[p].pc \in {"idle", "done", "thrown"}

----------------------------------------------------------------------------
(* SeerClient.query                                                        *)

SeerQ(endpoint, params, limit, offset, dry_run) ==
    [endpoint |-> endpoint, params |-> params, limit |-> limit, offset |-> offset,
     dry_run |-> dry_run]
SiteBreast == Some([site |-> "breast"])
\* the calls of the model: a plain query, its dry run, a page of it, a
\* negative limit, a missing required parameter, a site outside the
\* enum_values, an endpoint that is not defined
SeerQueries ==
    { SeerQ("incidence", SiteBreast, None, None, None),
      SeerQ("incidence", SiteBreast, None, None, Some(TRUE)),
      SeerQ("incidence", SiteBreast, Some(1), Some(1), Some(FALSE)),
      SeerQ("incidence", SiteBreast, Some(-1), None, None),
      SeerQ("incidence", None, None, None, None),
      SeerQ("incidence", Some([site |-> "bogus"]), None, None, Some(TRUE)),
      SeerQ("sites", None, None, None, Some(TRUE)),
      SeerQ("sites", None, None, None, None) }
\* the calls that overlap in SpecConc
ConcSeerQueries == { SeerQ("incidence", SiteBreast, None, None, None) }
SeerCacheKeys == { SeerCacheKey(SeerNormalizeQuery(q)) : q \in SeerQueries }

\* query, lines 57-61, once fetchData has returned rawData
SeerDataResult(t, rawData, endpoint) ==
    SeerCreateResult(SeerApplyPagination(rawData, Get(t.nq)), Len(rawData),
                     Get(t.nq), t.start, endpoint)

\* fetchData -> generateMockData: the call returns synthetic rows
SeerReturnMock(p, t, endpoint) ==
    \E data \in MockDataSets(Get(t.nq)) :
        LET t1 == [Did(t, {"generate"}) EXCEPT
                     !.gen = Some([gen |-> "generateMockData", key |-> Get(t.nq), out |-> data])]
        IN  task' = [task EXCEPT ![p] = Return(t1, SeerDataResult(t1, data, endpoint))]

\* fetchData, lines 160-188, in live mode: the cache check; on a miss the
\* call awaits fetch(url)
SeerFetchLive(p, t, endpoint) ==
    LET cacheFile == rowCache[SeerCacheKey(Get(t.nq))]
    IN  IF PathExists(cacheFile) /\ Age(cacheFile) < RowCacheTtl
        THEN LET t1 == HasRead(Did(t, {"cache_read"}), "rows", cacheFile, TRUE)
             IN  IF ReadJsonThrows(cacheFile)
                 THEN task' = [task EXCEPT ![p] =
                         Return(t1, SeerCreateErrorResult(Get(t.query), t.start, JsonParseError))]
                 ELSE task' = [task EXCEPT ![p] =
                         Return(t1, SeerDataResult(t1, ReadJson(cacheFile), endpoint))]
        ELSE task' = [task EXCEPT ![p] =
                [Did(t, {"network"}) EXCEPT !.pc = "seer_fetch", !.desc = Some(endpoint),
                                            !.attempts = @ + 1]]

\* query without its dry-run branch: a dry run goes through fetchData too
SeerAfterEndpoints_DryRunFetches(p, t, endpoints) ==
    LET nq  == Get(t.nq)
        err == SeerValidate(endpoints, nq)
    IN  IF IsSome(err)
        THEN /\ task' = [task EXCEPT ![p] =
                    Return(t, SeerCreateErrorResult(Get(t.query), t.start, Get(err)))]
             /\ UNCHANGED rowCache
        ELSE LET endpoint == Get(FindEndpoint(endpoints, nq.endpoint))
             IN  IF ~apiKey
                 THEN SeerReturnMock(p, t, endpoint) /\ UNCHANGED rowCache
                 ELSE SeerFetchLive(p, t, endpoint) /\ UNCHANGED rowCache

\* query, lines 34-61, once getAvailableEndpoints has returned endpoints
SeerAfterEndpoints(p, t, endpoints) ==
    LET nq  == Get(t.nq)
        err == SeerValidate(endpoints, nq)
    IN  IF IsSome(err)
        THEN /\ task' = [task EXCEPT ![p] =
                    Return(t, SeerCreateErrorResult(Get(t.query), t.start, Get(err)))]
             /\ UNCHANGED rowCache
        ELSE LET endpoint == Get(FindEndpoint(endpoints, nq.endpoint))
             IN  IF nq.dry_run
                 THEN /\ task' = [task EXCEPT ![p] =
                            Return(Did(t, {"estimate"}),
                                   SeerCreateResult(<<>>, EstimateRows(nq), nq, t.start, endpoint))]
                      /\ UNCHANGED rowCache
                 ELSE IF ~apiKey
                 THEN SeerReturnMock(p, t, endpoint) /\ UNCHANGED rowCache
                 ELSE SeerFetchLive(p, t, endpoint) /\ UNCHANGED rowCache

\* query is called: normalizeQuery, then getAvailableEndpoints up to its
\* first write, or on to the end of the call when endpoints.json is fresh
SeerQuery(p, query) ==
    /\ server = "seer"
    /\ CanStart(p)
    /\ LET t == Enter(p, "seer", query, SeerNormalizeQuery(query))
       IN  IF PathExists(endpointsFile) /\ Age(endpointsFile) < CatalogTtl
           THEN /\ UNCHANGED endpointsFile
                /\ LET t1 == HasRead(Did(t, {"cache_read"}), "endpoints", endpointsFile, TRUE)
                   IN  IF ReadJsonThrows(endpointsFile)
                       THEN /\ task' = [task EXCEPT ![p] =
                                  Return(t1, SeerCreateErrorResult(query, t.start, JsonParseError))]
                            /\ UNCHANGED rowCache
                       ELSE SeerAfterEndpoints(p, t1, ReadJson(endpointsFile))
           ELSE /\ endpointsFile' = TruncatedFile(now)
                /\ task' = [task EXCEPT ![p] =
                      [Did(t, {"cache_write"}) EXCEPT !.pc = "seer_endpoints_write"]]
                /\ UNCHANGED rowCache
    /\ UNCHANGED <<now, ticks, server, appVars, nhanesVars, apiKey, release, datasetsFile, dataFiles>>

\* getAvailableEndpoints, line 151: fs.writeJson(cacheFile, endpoints) ends,
\* and the call goes on
SeerEndpointsWritten(p) ==
    /\ task[p].pc = "seer_endpoints_write"
    /\ endpointsFile' = WrittenFile(now, SeerEndpoints)
    /\ SeerAfterEndpoints(p, [task[p] EXCEPT !.pc = "running"], SeerEndpoints)
    /\ UNCHANGED <<now, ticks, server, appVars, nhanesVars, apiKey, release, datasetsFile, dataFiles>>

\* fetchData with a failed fetch(url) tried again, up to three times
SeerFetched_Retry(p) ==
    /\ task[p].pc = "seer_fetch"
    /\ LET t == task[p]
       IN  \E outcome \in LiveOutcomes :
              IF outcome = "ok"
              THEN \E data \in LiveDataSets :
                      /\ rowCache' = [rowCache EXCEPT
                                         ![SeerCacheKey(Get(t.nq))] = TruncatedFile(now)]
                      /\ task' = [task EXCEPT ![p] =
                            [Did(t, {"cache_write"}) EXCEPT
                                !.pc = "seer_rows_write", !.pending = Some(data)]]
              ELSE IF t.attempts < 3
              THEN /\ UNCHANGED rowCache
                   /\ task' = [task EXCEPT ![p] = [t EXCEPT !.attempts = @ + 1]]
              ELSE /\ UNCHANGED rowCache
                   /\ SeerReturnMock(p, t, Get(t.desc))
    /\ UNCHANGED <<now, ticks, server, appVars, nhanesVars, apiKey, release, endpointsFile, datasetsFile, dataFiles>>

\* fetchData writing the rows of generateMockData to the cache file when
\* fetch(url) has failed
SeerFetched_CachesFallback(p) ==
    /\ task[p].pc = "seer_fetch"
    /\ LET t == task[p]
       IN  \E outcome \in LiveOutcomes :
              \E data \in (IF outcome = "ok" THEN LiveDataSets ELSE MockDataSets(Get(t.nq))) :
                  /\ rowCache' = [rowCache EXCEPT
                                     ![SeerCacheKey(Get(t.nq))] = TruncatedFile(now)]
                  /\ task' = [task EXCEPT ![p] =
                        [Did(t, IF outcome = "ok" THEN {"cache_write"}
                                ELSE {"cache_write", "generate"}) EXCEPT
                            !.pc = "seer_rows_write", !.pending = Some(data),
                            !.gen = IF outcome = "ok" THEN None
                                    ELSE Some([gen |-> "generateMockData",
                                               key |-> Get(t.nq), out |-> data])]]
    /\ UNCHANGED <<now, ticks, server, appVars, nhanesVars, apiKey, release, endpointsFile, datasetsFile, dataFiles>>

\* fetchData, lines 190-218: fetch(url) settles.  An OK response that
\* decodes begins fs.writeJson(cacheFile, data); anything else is caught and
\* answered with generateMockData
SeerFetched(p) ==
    /\ task[p].pc = "seer_fetch"
    /\ LET t == task[p]
       IN  \E outcome \in LiveOutcomes :
              IF outcome = "ok"
              THEN \E data \in LiveDataSets :
                      /\ rowCache' = [rowCache EXCEPT
                                         ![SeerCacheKey(Get(t.nq))] = TruncatedFile(now)]
                      /\ task' = [task EXCEPT ![p] =
                            [Did(t, {"cache_write"}) EXCEPT
                                !.pc = "seer_rows_write", !.pending = Some(data)]]
              ELSE /\ UNCHANGED rowCache
                   /\ SeerReturnMock(p, t, Get(t.desc))
    /\ UNCHANGED <<now, ticks, server, appVars, nhanesVars, apiKey, release, endpointsFile, datasetsFile, dataFiles>>

\* fetchData, lines 211-212: fs.writeJson(cacheFile, data) ends; return data
SeerRowsWritten(p) ==
    /\ task[p].pc = "seer_rows_write"
    /\ LET t == task[p]
           data == Get(t.pending)
           endpoint == Get(t.desc)
       IN  /\ rowCache' = [rowCache EXCEPT ![SeerCacheKey(Get(t.nq))] = WrittenFile(now, data)]
           /\ task' = [task EXCEPT ![p] = Return(t, SeerDataResult(t, data, endpoint))]
    /\ UNCHANGED <<now, ticks, server, appVars, nhanesVars, apiKey, release, endpointsFile, datasetsFile, dataFiles>>

----------------------------------------------------------------------------
(* PhysioNetClient.catalog                                                 *)

CatalogQ(query, category, limit, offset, dry_run) ==
    [query |-> query, category |-> category, limit |-> limit, offset |-> offset,
     dry_run |-> dry_run]
CatalogQueries ==
    { CatalogQ(None, None, None, None, None),
      CatalogQ(None, None, None, None, Some(TRUE)),
      CatalogQ(Some("sleep"), None, Some(1), None, Some(FALSE)),
      CatalogQ(None, Some("eeg"), None, Some(1), None),
      CatalogQ(None, None, Some(-1), None, None) }
ConcCatalogQueries == { CatalogQ(None, None, None, None, None) }

\* catalog, lines 244-247, once searchDatasets has the whole catalog
CatalogDataResult(t, allDatasets) ==
    LET datasets == FilterDatasets(allDatasets, Get(t.nq))
    IN  CreateCatalogResult(PhysApplyPagination(datasets, Get(t.nq)), Len(datasets),
                            Get(t.nq), t.start)

\* catalog is called: up to the first write of searchDatasets, or to the end
PhysCatalog(p, query) ==
    /\ server = "physionet"
    /\ CanStart(p)
    /\ LET nq == NormalizeCatalogQuery(query)
           t  == Enter(p, "catalog", query, nq)
       IN  IF nq.dry_run
           THEN /\ task' = [task EXCEPT ![p] =
                      Return(Did(t, {"estimate"}),
                             CreateCatalogResult(<<>>, EstimateDatasetCount(nq), nq, t.start))]
                /\ UNCHANGED datasetsFile
           ELSE IF PathExists(datasetsFile) /\ Age(datasetsFile) < CatalogTtl
           THEN /\ UNCHANGED datasetsFile
                /\ LET t1 == HasRead(Did(t, {"cache_read"}), "datasets", datasetsFile, TRUE)
                   IN  IF ReadJsonThrows(datasetsFile)
                       THEN task' = [task EXCEPT ![p] =
                               Return(t1, CreateCatalogErrorResult(query, t.start, JsonParseError))]
                       ELSE task' = [task EXCEPT ![p] =
                               Return(t1, CatalogDataResult(t1, ReadJson(datasetsFile)))]
           ELSE /\ datasetsFile' = TruncatedFile(now)
                /\ task' = [task EXCEPT ![p] =
                      [Did(t, {"generate", "cache_write"}) EXCEPT
                          !.pc = "phys_datasets_write",
                          !.pending = Some(GenerateSampleDatasets(release))]]
    /\ UNCHANGED <<now, ticks, server, appVars, nhanesVars, apiKey, release, endpointsFile, rowCache, dataFiles>>

\* searchDatasets, lines 321-323: fs.writeJson(cacheFile, datasets) ends
PhysDatasetsWritten(p) ==
    /\ task[p].pc = "phys_datasets_write"
    /\ LET t == task[p]
       IN  /\ datasetsFile' = WrittenFile(now, Get(t.pending))
           /\ task' = [task EXCEPT ![p] = Return(t, CatalogDataResult(t, Get(t.pending)))]
    /\ UNCHANGED <<now, ticks, server, appVars, nhanesVars, apiKey, release, endpointsFile, rowCache, dataFiles>>

----------------------------------------------------------------------------
(* PhysioNetClient.fetch                                                   *)

FetchQ(dataset, files, columns, limit, offset, dry_run) ==
    [dataset |-> dataset, files |-> files, columns |-> columns, limit |-> limit,
     offset |-> offset, dry_run |-> dry_run]
FetchQueries ==
    { FetchQ("mitdb", None, None, None, None, None),
      FetchQ("mitdb", Some(<<"100.dat", "100.atr">>), Some(<<"MLII">>), Some(5), None,
             Some(TRUE)),
      FetchQ("mitdb", None, Some(<<"MLII", "bogus">>), Some(5), None, Some(FALSE)),
      FetchQ("mitdb", None, None, Some(-1), Some(1), None),
      FetchQ("eegmmidb", None, None, None, None, None),
      FetchQ("eegmmidb", None, None, None, None, Some(TRUE)),
      FetchQ("chbmit", None, None, None, None, None),
      FetchQ("unknown-id", None, None, None, None, None),
      FetchQ("unknown-id", None, None, None, None, Some(TRUE)) }
ConcFetchQueries ==
    { FetchQ("mitdb", Some(<<"100.dat", "100.atr">>), None, None, None, None) }

\* the fetches of SpecPhys: every query with dry_run true, false and
\* absent.  The queries: the default files, files by name, an annotation
\* file by name, a name that no file has, a dataset without a binary, csv
\* or tsv file, an id on the allowlist and not in the catalog, an id on
\* neither
FetchModeQueries ==
    { FetchQ(base[1], base[2], None, None, None, mode) :
        base \in { <<"mitdb", None>>,
                   <<"mitdb", Some(<<"100.dat", "100.atr">>)>>,
                   <<"mitdb", Some(<<"100.atr">>)>>,
                   <<"mitdb", Some(<<"missing.dat">>)>>,
                   <<"eegmmidb", None>>,
                   <<"chbmit", None>>,
                   <<"unknown-id", None>> },
        mode \in {None, Some(FALSE), Some(TRUE)} }

\* fetch is called: up to the first file of fetchDatasetData
PhysFetch(p, query) ==
    /\ server = "physionet"
    /\ CanStart(p)
    /\ LET nq == NormalizeFetchQuery(query)
           t0 == Enter(p, "fetch", query, nq)
           resolved == FetchResolve(nq)
           t  == Did(t0, resolved.fx)
       IN  IF IsSome(resolved.err)
           THEN task' = [task EXCEPT ![p] =
                   Return(t, CreateFetchErrorResult(query, t.start, Get(resolved.err)))]
           ELSE LET dataset == Get(resolved.dataset)
                IN  IF nq.dry_run
                    THEN task' = [task EXCEPT ![p] =
                            Return(Did(t, {"estimate"}),
                                   CreateFetchResult(<<>>, EstimateDatasetRows(dataset, nq),
                                                     nq, t.start, dataset))]
                    ELSE IF TargetFiles(dataset, nq) = <<>>
                    THEN task' = [task EXCEPT ![p] =
                            Return(t, CreateFetchErrorResult(query, t.start,
                                                            <<"No suitable data files found">>))]
                    ELSE task' = [task EXCEPT ![p] =
                            [t EXCEPT !.pc = "phys_load", !.desc = Some(dataset),
                                      !.todo = TargetFiles(dataset, nq)]]
    /\ UNCHANGED <<now, ticks, server, appVars, nhanesVars, apiKey, release, endpointsFile, rowCache,
                   datasetsFile, dataFiles>>

\* loadFileData for the next target file, lines 550-564: when the cache file
\* is absent the call goes on to generate it; otherwise, and after it has
\* generated it, the file is read, and after the last file the call
\* paginates and returns
PhysLoadFile(p) ==
    /\ task[p].pc \in {"phys_load", "phys_read"}
    /\ LET t == task[p]
           nq == Get(t.nq)
           dataset == Get(t.desc)
           cacheFile == dataFiles[DataFileKey(dataset, Head(t.todo))]
       IN  IF t.pc = "phys_load" /\ ~PathExists(cacheFile)
           THEN task' = [task EXCEPT ![p] = [t EXCEPT !.pc = "phys_generate"]]
           ELSE LET allData == t.acc \o LoadedRows(cacheFile, nq)
                    t1 == [HasRead(Did(t, {"cache_read"}), "data", cacheFile,
                                   t.pc = "phys_load") EXCEPT
                              !.pc = "phys_load", !.acc = allData, !.todo = Tail(t.todo)]
                IN  IF Tail(t.todo) = <<>>
                    THEN task' = [task EXCEPT ![p] =
                            Return(t1, CreateFetchResult(PhysApplyPagination(allData, nq),
                                                         Len(allData), nq, t.start, dataset))]
                    ELSE task' = [task EXCEPT ![p] = t1]
    /\ UNCHANGED <<now, ticks, server, appVars, nhanesVars, apiKey, release, endpointsFile, rowCache,
                   datasetsFile, dataFiles>>

\* generateSampleFileData, lines 567-602: the rows are drawn and
\* fs.writeFile(outputPath, ...) begins
PhysGenerate(p) ==
    /\ task[p].pc = "phys_generate"
    /\ LET t == task[p]
           file == Head(t.todo)
           key == DataFileKey(Get(t.desc), file)
       IN  \E text \in SampleFileTexts(file) :
              /\ dataFiles' = [dataFiles EXCEPT ![key] = TruncatedFile(now)]
              /\ task' = [task EXCEPT ![p] =
                    [Did(t, {"generate", "cache_write"}) EXCEPT
                        !.pc = "phys_file_write", !.pending = Some(text),
                        !.gen = Some([gen |-> "generateSampleFileData",
                                      key |-> key, out |-> text])]]
    /\ UNCHANGED <<now, ticks, server, appVars, nhanesVars, apiKey, release, endpointsFile, rowCache, datasetsFile>>

\* generateSampleFileData, line 602: fs.writeFile(outputPath, ...) ends
PhysFileWritten(p) ==
    /\ task[p].pc = "phys_file_write"
    /\ LET t == task[p]
           key == DataFileKey(Get(t.desc), Head(t.todo))
       IN  /\ dataFiles' = [dataFiles EXCEPT ![key] = WrittenFile(now, Get(t.pending))]
           /\ task' = [task EXCEPT ![p] = [t EXCEPT !.pc = "phys_read", !.pending = None]]
    /\ UNCHANGED <<now, ticks, server, appVars, nhanesVars, apiKey, release, endpointsFile, rowCache, datasetsFile>>

----------------------------------------------------------------------------
(* The CallTool handlers of the two servers.  A request whose arguments    *)
(* parse is handed to query, catalog or fetch (the actions above); the     *)
(* others end in a thrown McpError.                                        *)

\* SeerQuerySchema: endpoint is a z.enum, limit and offset are any number
SeerEndpointEnum ==
    {"incidence", "mortality", "survival", "population", "sites", "demographics"}
SeerQuerySchemaParses(args) == args.endpoint \in SeerEndpointEnum

\* PhysioNetCatalogSchema: category is an optional z.enum
CatalogCategoryEnum == {"ecg", "eeg", "emg", "clinical", "waveform", "annotation", "all"}
PhysioNetCatalogSchemaParses(args) ==
    IsSome(args.category) => Get(args.category) \in CatalogCategoryEnum

\* error.message of the ZodError of a failed parse
ZodErrorMessage == "Invalid enum value"

\* new McpError(code, message)
McpError(code, message) == [thrown |-> "McpError", code |-> code, message |-> message]

\* the catch of the handler: an McpError is rethrown, anything else is
\* wrapped in McpError(InternalError, `Tool execution failed: ...`)
ToolThrows(p, op, request, parses) ==
    /\ CanStart(p)
    /\ request.name \in {"seer_query", "physionet_catalog"} => ~parses
    /\ task' = [task EXCEPT ![p] =
          [IdleTask EXCEPT
              !.pc = "thrown", !.op = op, !.query = Some(request.arguments),
              !.result =
                  Some(IF request.name \in {"seer_query", "physionet_catalog"}
                       THEN McpError("InternalError",
                                     <<"Tool execution failed: ", ZodErrorMessage>>)
                       ELSE McpError("MethodNotFound",
                                     <<"Unknown tool: ", request.name>>))]]
    /\ UNCHANGED <<now, ticks, server, appVars, nhanesVars, apiKey, release, endpointsFile, rowCache,
                   datasetsFile, dataFiles>>

\* requests the SEER handler does not hand to query: an endpoint outside
\* the enum, a tool it does not have
SeerToolRequests ==
    { [name |-> "seer_query", arguments |-> SeerQ("tumors", SiteBreast, None, None, None)],
      [name |-> "seer_catalog", arguments |-> SeerQ("incidence", SiteBreast, None, None, None)] }
SeerCallToolThrows(p, request) ==
    /\ server = "seer"
    /\ ToolThrows(p, "seer", request, SeerQuerySchemaParses(request.arguments))

\* requests the PhysioNet handler does not hand to catalog: a category
\* outside the enum, a tool it does not have
PhysToolRequests ==
    { [name |-> "physionet_catalog",
       arguments |-> CatalogQ(None, Some("imaging"), None, None, None)],
      [name |-> "physionet_list",
       arguments |-> CatalogQ(None, None, None, None, None)] }
PhysCallToolThrows(p, request) ==
    /\ server = "physionet"
    /\ ToolThrows(p, "catalog", request, PhysioNetCatalogSchemaParses(request.arguments))

----------------------------------------------------------------------------
(* The normalizers alone: normalizeQuery of SeerClient, normalizeCatalog-   *)
(* Query and normalizeFetchQuery of PhysioNetClient, applied to raw queries *)
(* with every combination of an absent and a given limit, offset and        *)
(* dry_run, and applied again to their own output.                          *)

\* the largest limit and offset of a raw query
MaxLimit == 2
RawNumbers == {None} \cup { Some(n) : n \in 0..MaxLimit }
RawFlags == {None, Some(TRUE), Some(FALSE)}

\* the raw queries of a tool
RawQueries(tool) ==
    CASE tool = "seer" ->
           { SeerQ("incidence", SiteBreast, l, o, d) :
               l \in RawNumbers, o \in RawNumbers, d \in RawFlags }
      [] tool = "catalog" ->
           { CatalogQ(None, None, l, o, d) :
               l \in RawNumbers, o \in RawNumbers, d \in RawFlags }
      [] OTHER ->
           { FetchQ("mitdb", None, None, l, o, d) :
               l \in RawNumbers, o \in RawNumbers, d \in RawFlags }

\* the normalizer of a tool
NormalizeOf(tool, raw) ==
    CASE tool = "seer"    -> SeerNormalizeQuery(raw)
      [] tool = "catalog" -> NormalizeCatalogQuery(raw)
      [] OTHER            -> NormalizeFetchQuery(raw)

\* a normalized query (Required<...>: every field present) passed as a query
AsRaw(tool, nq) ==
    CASE tool = "seer" ->
           SeerQ(nq.endpoint, Some(nq.params), Some(nq.limit), Some(nq.offset),
                 Some(nq.dry_run))
      [] tool = "catalog" ->
           CatalogQ(Some(nq.query), Some(nq.category), Some(nq.limit), Some(nq.offset),
                    Some(nq.dry_run))
      [] OTHER ->
           FetchQ(nq.dataset, Some(nq.files), Some(nq.columns), Some(nq.limit),
                  Some(nq.offset), Some(nq.dry_run))

ToolsOf(s) == IF s = "seer" THEN {"seer"} ELSE {"catalog", "fetch"}

\* the first step of query, catalog or fetch: the raw query is normalized
Normalize(p, tool, raw) ==
    /\ tool \in ToolsOf(server)
    /\ task[p].pc \in {"idle", "normalized", "renormalized"}
    /\ task' = [task EXCEPT ![p] =
          [IdleTask EXCEPT !.pc = "normalized", !.op = tool, !.query = Some(raw),
                           !.nq = Some(NormalizeOf(tool, raw))]]
    /\ UNCHANGED <<now, ticks, server, appVars, nhanesVars, apiKey, release, endpointsFile, rowCache,
                   datasetsFile, dataFiles>>

\* the normalized query is normalized again
NormalizeAgain(p) ==
    /\ task[p].pc = "normalized"
    /\ task' = [task EXCEPT ![p] =
          [@ EXCEPT !.pc = "renormalized",
                    !.result = Some(NormalizeOf(task[p].op, AsRaw(task[p].op, Get(task[p].nq))))]]
    /\ UNCHANGED <<now, ticks, server, appVars, nhanesVars, apiKey, release, endpointsFile, rowCache,
                   datasetsFile, dataFiles>>

----------------------------------------------------------------------------
(* NHANES MCP server: NHANESMetadataLoader (metadata-loader.ts) and the    *)
(* CallTool handler with ensureMetadataLoaded.  loadAllMetadata fetches    *)
(* the variable list of every (category, cycle) in turn; every fetch is an *)
(* await at which other tool calls run.                                    *)

\* loadAllMetadata, lines 28-29: the cycles and categories, newest first
AllCycles == <<"2017-2018", "2015-2016", "2013-2014", "2011-2012", "2009-2010">>
AllCategories == <<"demographics", "dietary", "examination", "laboratory", "questionnaire">>

\* the first MaxCategories categories and MaxCycles cycles are loaded
MaxCycles == 3
MaxCategories == 1
Cycles == SubSeq(AllCycles, 1, Min(MaxCycles, Len(AllCycles)))
Categories == SubSeq(AllCategories, 1, Min(MaxCategories, Len(AllCategories)))

\* the two calls that overlap in SpecNhanesConc; one call at a time in
\* SpecNhanes
NhTasks == {"n1"}
NhConcTasks == {"n1", "n2"}

\* loadAllMetadata, lines 31-35: the (category, cycle) pairs in loop order
LoadOrder ==
    [i \in 1..(Len(Categories) * Len(Cycles)) |->
        <<Categories[((i - 1) \div Len(Cycles)) + 1], Cycles[((i - 1) % Len(Cycles)) + 1]>>]

\* the letter the CDC appends to the file code of a cycle
CycleSuffix(cycle) ==
    CASE cycle = "2017-2018" -> "J"
      [] cycle = "2015-2016" -> "I"
      [] cycle = "2013-2014" -> "H"
      [] cycle = "2011-2012" -> "G"
      [] OTHER -> "F"

\* a description is its text and the text of its trailing parenthesis
Desc(text, paren) == [text |-> text, paren |-> paren]
UnitWords == {"mg/L", "years", "%", "kg/m2"}

\* the rows of table #GridView1 of the variable list page of (category,
\* cycle): RIDAGEYR is listed in every cycle, DMDEDUC2 in the newest only;
\* cells is the number of <td> of the row
VariableListPage(category, cycle) ==
    LET file == "Variables and Sample Weights"
        code == <<category, CycleSuffix(cycle)>>
    IN  << [cells |-> 7, variableName |-> "RIDAGEYR",
            variableDesc |-> Desc("Age in years at screening", Some("years")),
            dataFileName |-> code, dataFileDesc |-> file] >>
        \o (IF cycle = AllCycles[1]
            THEN << [cells |-> 7, variableName |-> "DMDEDUC2",
                     variableDesc |-> Desc("Education level", Some("Adults 20+")),
                     dataFileName |-> code, dataFileDesc |-> file],
                    [cells |-> 3, variableName |-> "", variableDesc |-> Desc("", None),
                     dataFileName |-> code, dataFileDesc |-> file] >>
            ELSE <<>>)

\* extractUnit: the trailing parenthesis when it names a unit
ExtractUnit(description) ==
    IF IsSome(description.paren) /\ Get(description.paren) \in UnitWords
    THEN description.paren ELSE None

\* `${category}:${fileName}`
FileKey(category, fileName) == <<category, fileName>>

\* loadVariablesForCycle, lines 53-93: the rows of the table are stored one
\* by one into fileMetadata (fm) and variableMetadata (vm)
RECURSIVE StoreRows(_, _, _, _, _)
StoreRows(rows, category, cycle, fm, vm) ==
    IF rows = <<>> THEN [fileMetadata |-> fm, variableMetadata |-> vm]
    ELSE LET row == Head(rows)
             fileKey == FileKey(category, row.dataFileDesc)
             fm1 == IF fileKey \notin DOMAIN fm
                    THEN fm @@ (fileKey :> [category |-> category,
                                            fileName |-> row.dataFileDesc,
                                            fileCode |-> row.dataFileName,
                                            description |-> row.dataFileDesc,
                                            cycles |-> <<cycle>>])
                    ELSE IF cycle \notin SeqToSet(fm[fileKey].cycles)
                    THEN [fm EXCEPT ![fileKey].cycles = Append(@, cycle)]
                    ELSE fm
             vm0 == IF fileKey \notin DOMAIN vm THEN vm @@ (fileKey :> <<>>) ELSE vm
             vm1 == [vm0 EXCEPT ![fileKey] =
                        Append(@, [variableName |-> row.variableName,
                                   description |-> row.variableDesc,
                                   fileName |-> row.dataFileDesc,
                                   category |-> category,
                                   unit |-> ExtractUnit(row.variableDesc),
                                   cycles |-> <<cycle>>])]
         IN  IF row.cells < 7
             THEN StoreRows(Tail(rows), category, cycle, fm, vm)
             ELSE StoreRows(Tail(rows), category, cycle, fm1, vm1)

\* getAllFileDescriptions
GetAllFileDescriptions(fm) == { fm[k] : k \in DOMAIN fm }
\* getVariablesForFile
GetVariablesForFile(vm, category, fileName) ==
    IF FileKey(category, fileName) \in DOMAIN vm THEN vm[FileKey(category, fileName)] ELSE <<>>
\* getFileCode
GetFileCode(fm, category, fileName) ==
    IF FileKey(category, fileName) \in DOMAIN fm
    THEN Some(fm[FileKey(category, fileName)].fileCode) ELSE None

\* cycle >= minCycle on strings "YYYY-YYYY": the order of the begin years
BeginYear(cycle) ==
    CASE cycle = "2017-2018" -> 2017
      [] cycle = "2015-2016" -> 2015
      [] cycle = "2013-2014" -> 2013
      [] cycle = "2011-2012" -> 2011
      [] OTHER -> 2009

\* a tool request: name and arguments (an argument left out is None)
NhRequest(name, category, file_name, variable_name, min_cycle) ==
    [name |-> name, category |-> category, file_name |-> file_name,
     variable_name |-> variable_name, min_cycle |-> min_cycle]
NhFile == "Variables and Sample Weights"
NhRequests ==
    { NhRequest("nhanes_find_files", None, None, None, None),
      NhRequest("nhanes_find_files", Some("demographics"), None, None, Some("2017-2018")),
      NhRequest("nhanes_find_variables", Some("demographics"), Some(NhFile), None, None),
      NhRequest("nhanes_find_variables", Some("demographics"), None, None, None),
      NhRequest("nhanes_get_variable_details", Some("demographics"), Some(NhFile),
                Some("RIDAGEYR"), None),
      NhRequest("nhanes_get_variable_details", Some("demographics"), Some(NhFile),
                Some("DMDEDUC2"), None),
      NhRequest("nhanes_get_variable_details", Some("demographics"), Some(NhFile),
                Some("LBXHSCRP"), None),
      NhRequest("nhanes_get_download_url", None, None, None, None),
      NhRequest("nhanes_query", None, None, None, None) }
NhConcRequests ==
    { NhRequest("nhanes_get_variable_details", Some("demographics"), Some(NhFile),
                Some("RIDAGEYR"), None),
      NhRequest("nhanes_find_files", None, None, None, None) }

\* the tools that await ensureMetadataLoaded
MetadataTools == {"nhanes_find_files", "nhanes_find_variables", "nhanes_get_variable_details"}

\* the return of the handler, and the return of its catch
ToolContent(payload) == [isError |-> FALSE, content |-> payload]
ToolError(message) == [isError |-> TRUE, content |-> [error |-> message]]

\* case 'nhanes_find_files', lines 341-381
FindFiles(req, fm) ==
    LET allFiles == GetAllFileDescriptions(fm)
        inCat == IF IsSome(req.category)
                 THEN {f \in allFiles : f.category = Get(req.category)} ELSE allFiles
        recent == IF IsSome(req.min_cycle)
                  THEN {f \in inCat : \E c \in SeqToSet(f.cycles) :
                                         BeginYear(c) >= BeginYear(Get(req.min_cycle))}
                  ELSE inCat
    IN  ToolContent({ [category |-> f.category, file_name |-> f.fileName,
                       description |-> f.description, cycles |-> f.cycles] : f \in recent })

\* case 'nhanes_find_variables', lines 387-410
FindVariables(req, vm) ==
    IF ~IsSome(req.category) \/ ~IsSome(req.file_name)
    THEN ToolError(<<"category and file_name are required">>)
    ELSE LET variables == GetVariablesForFile(vm, Get(req.category), Get(req.file_name))
         IN  ToolContent([i \in 1..Len(variables) |->
                            [variable_name |-> variables[i].variableName,
                             description |-> variables[i].description,
                             unit |-> variables[i].unit,
                             cycles |-> variables[i].cycles]])

\* case 'nhanes_get_variable_details', lines 416-450:
\* variables.find(v => v.variableName === variableName) is the first match
GetVariableDetails(req, fm, vm) ==
    IF ~IsSome(req.category) \/ ~IsSome(req.file_name) \/ ~IsSome(req.variable_name)
    THEN ToolError(<<"category, file_name, and variable_name are required">>)
    ELSE LET variables == GetVariablesForFile(vm, Get(req.category), Get(req.file_name))
             found == SelectSeq(variables,
                                LAMBDA v : v.variableName = Get(req.variable_name))
         IN  IF found = <<>>
             THEN ToolError(<<"Variable ", Get(req.variable_name), " not found in ",
                              Get(req.category), Get(req.file_name)>>)
             ELSE LET variable == Head(found)
                  IN  ToolContent([variable_name |-> variable.variableName,
                                   description |-> variable.description,
                                   file_name |-> variable.fileName,
                                   file_code |-> GetFileCode(fm, Get(req.category),
                                                             Get(req.file_name)),
                                   category |-> variable.category,
                                   unit |-> variable.unit,
                                   cycles |-> variable.cycles])

\* the handler once ensureMetadataLoaded has returned
MetadataToolResult(req, fm, vm) ==
    CASE req.name = "nhanes_find_files" -> FindFiles(req, fm)
      [] req.name = "nhanes_find_variables" -> FindVariables(req, vm)
      [] OTHER -> GetVariableDetails(req, fm, vm)

\* the handler for the tools that need no metadata: get_download_url
\* without its required arguments, and the default of the switch
OtherToolResult(req) ==
    IF req.name = "nhanes_get_download_url"
    THEN ToolError(<<"cycle and file_code are required">>)
    ELSE ToolError(<<"Unknown tool: ", req.name>>)

\* nhCall[p]: position of the call, its request, the index in LoadOrder of
\* the page its load fetches next, its result; partial tells that the
\* result was computed while a loadAllMetadata was in progress
IdleCall == [pc |-> "idle", request |-> None, pos |-> 0, result |-> None, partial |-> FALSE]
LoadingNow(except) == \E q \in DOMAIN nhCall \ {except} : nhCall[q].pc = "loading"
Answered(p, req, res) ==
    [IdleCall EXCEPT !.pc = "done", !.request = Some(req), !.result = Some(res),
                     !.partial = LoadingNow(p)]

\* a tool call arrives.  ensureMetadataLoaded: when metadataLoaded is false
\* the call starts loadAllMetadata and waits at its first fetch
NhCallTool(p, req) ==
    /\ server = "nhanes"
    /\ nhCall[p].pc \in {"idle", "done"}
    /\ IF req.name \notin MetadataTools
       THEN /\ nhCall' = [nhCall EXCEPT ![p] = Answered(p, req, OtherToolResult(req))]
            /\ UNCHANGED loads
       ELSE IF metadataLoaded
       THEN /\ nhCall' = [nhCall EXCEPT ![p] =
                  Answered(p, req, MetadataToolResult(req, fileMetadata, variableMetadata))]
            /\ UNCHANGED loads
       ELSE /\ nhCall' = [nhCall EXCEPT ![p] =
                  [IdleCall EXCEPT !.pc = "loading", !.request = Some(req), !.pos = 1]]
            /\ loads' = loads + 1
    /\ UNCHANGED <<metadataLoaded, fileMetadata, variableMetadata>>
    /\ UNCHANGED <<now, ticks, server, appVars, apiKey, release, endpointsFile, rowCache,
                   datasetsFile, dataFiles, task>>

\* loadVariablesForCycle: fetch(url) of the next page settles.  A page with
\* the table is stored; a failed fetch or a page without the table is
\* skipped (lines 51, 94-96)
LoadVariablesForCycle(p) ==
    /\ nhCall[p].pc = "loading"
    /\ nhCall[p].pos <= Len(LoadOrder)
    /\ LET category == LoadOrder[nhCall[p].pos][1]
           cycle == LoadOrder[nhCall[p].pos][2]
       IN  \E hasTable \in BOOLEAN :
              LET stored == IF hasTable
                            THEN StoreRows(VariableListPage(category, cycle), category, cycle,
                                           fileMetadata, variableMetadata)
                            ELSE [fileMetadata |-> fileMetadata,
                                  variableMetadata |-> variableMetadata]
              IN  /\ fileMetadata' = stored.fileMetadata
                  /\ variableMetadata' = stored.variableMetadata
    /\ nhCall' = [nhCall EXCEPT ![p].pos = @ + 1]
    /\ UNCHANGED <<metadataLoaded, loads>>
    /\ UNCHANGED <<now, ticks, server, appVars, apiKey, release, endpointsFile, rowCache,
                   datasetsFile, dataFiles, task>>

\* ensureMetadataLoaded, lines 327-329: loadAllMetadata has returned, the
\* flag is set and the handler goes on to its answer
MetadataLoadEnds(p) ==
    /\ nhCall[p].pc = "loading"
    /\ nhCall[p].pos > Len(LoadOrder)
    /\ metadataLoaded' = TRUE
    /\ nhCall' = [nhCall EXCEPT ![p] =
          Answered(p, Get(nhCall[p].request),
                   MetadataToolResult(Get(nhCall[p].request), fileMetadata, variableMetadata))]
    /\ UNCHANGED <<fileMetadata, variableMetadata, loads>>
    /\ UNCHANGED <<now, ticks, server, appVars, apiKey, release, endpointsFile, rowCache,
                   datasetsFile, dataFiles, task>>

\* the module is loaded: empty maps, metadataLoaded = false
EmptyMap == [k \in {} |-> 0]
NhanesInit(calls) ==
    /\ metadataLoaded = FALSE
    /\ fileMetadata = EmptyMap
    /\ variableMetadata = EmptyMap
    /\ loads = 0
    /\ nhCall = [p \in calls |-> IdleCall]

----------------------------------------------------------------------------
(* The frontend: the component App (apps/frontend/src/App.tsx) with its    *)
(* two flows, runResearch and runLiteratureDiscovery.  An event handler    *)
(* and the part of an async function after its await run to their end, and *)
(* React renders the state they leave; a run button takes clicks when its  *)
(* tab is shown and its disabled attribute is false.                       *)

\* what the user types: nothing, blanks, a question
HypothesisTexts == {"", "  ", "Does elevated CRP predict cardiovascular events?"}
\* String.prototype.trim
Trim(s) == IF s = "  " THEN "" ELSE s

\* window.alert calls in one run of the model
MaxAlerts == 1

\* response.data of a 2xx answer to the request with this hypothesis
ResearchResponses(h) ==
    { [success |-> TRUE, hypothesis |-> h, feasible |-> f] : f \in BOOLEAN }
LiteratureResponses(h) ==
    { [success |-> TRUE, synthesis_input |-> [hypothesis |-> h, source |-> s]] :
        s \in {"literature", "none"} }

\* what axios.post rejects with: err.response?.data?.detail and err.message
\* (None: undefined)
AxiosErrors ==
    { [detail |-> d, message |-> m] :
        d \in {None, Some("Research failed")},
        m \in {None, Some(""), Some("Network Error")} }
\* err.response?.data?.detail || err.message || 'Unknown error occurred'
ErrorMsg(err) ==
    IF IsSome(err.detail) /\ Get(err.detail) # "" THEN Get(err.detail)
    ELSE IF IsSome(err.message) /\ Get(err.message) # "" THEN Get(err.message)
    ELSE "Unknown error occurred"

\* useState(...) of App, and no request in flight
AppInit ==
    /\ hypothesis = "" /\ result = None /\ isRunning = FALSE /\ error = None
    /\ literatureHypothesis = "" /\ literatureResult = None
    /\ isLiteratureRunning = FALSE /\ literatureError = None
    /\ activeTab = "nhanes"
    /\ researchRequest = None /\ literatureRequest = None
    /\ settled = {} /\ alerts = 0

\* the state of the research flow and of the literature flow
researchVars == <<hypothesis, result, isRunning, error, researchRequest>>
literatureVars == <<literatureHypothesis, literatureResult, isLiteratureRunning,
                    literatureError, literatureRequest>>
backendVars == <<now, ticks, apiKey, release, endpointsFile, rowCache,
                 datasetsFile, dataFiles, task, nhanesVars>>

\* onClick of the tab buttons
SetActiveTab(tab) ==
    /\ server = "frontend"
    /\ activeTab' = tab
    /\ UNCHANGED <<researchVars, literatureVars, settled, alerts, server, backendVars>>

\* onChange of the textarea of the NHANES tab
SetHypothesis(text) ==
    /\ server = "frontend"
    /\ activeTab = "nhanes"
    /\ hypothesis' = text
    /\ UNCHANGED <<result, isRunning, error, researchRequest, literatureVars,
                   activeTab, settled, alerts, server, backendVars>>

\* onChange of the textarea of the literature tab
SetLiteratureHypothesis(text) ==
    /\ server = "frontend"
    /\ activeTab = "literature"
    /\ literatureHypothesis' = text
    /\ UNCHANGED <<literatureResult, isLiteratureRunning, literatureError,
                   literatureRequest, researchVars, activeTab, settled, alerts,
                   server, backendVars>>

\* runResearch that leaves the result of the run before in place
RunResearch_KeepsResult ==
    /\ server = "frontend"
    /\ activeTab = "nhanes" /\ ~isRunning
    /\ IF Trim(hypothesis) = ""
       THEN /\ alerts < MaxAlerts
            /\ alerts' = alerts + 1
            /\ UNCHANGED <<researchVars, settled>>
       ELSE /\ isRunning' = TRUE
            /\ error' = None
            /\ researchRequest' = Some([hypothesis |-> hypothesis, max_iterations |-> 10])
            /\ UNCHANGED <<hypothesis, result, settled, alerts>>
    /\ UNCHANGED <<literatureVars, activeTab, server, backendVars>>

\* runResearch, lines 89-103: a click on the button of the NHANES tab, up to
\* the await of axios.post
RunResearch ==
    /\ server = "frontend"
    /\ activeTab = "nhanes" /\ ~isRunning
    /\ IF Trim(hypothesis) = ""
       THEN /\ alerts < MaxAlerts
            /\ alerts' = alerts + 1
            /\ UNCHANGED <<researchVars, settled>>
       ELSE /\ isRunning' = TRUE
            /\ error' = None
            /\ result' = None
            /\ researchRequest' = Some([hypothesis |-> hypothesis, max_iterations |-> 10])
            /\ UNCHANGED <<hypothesis, settled, alerts>>
    /\ UNCHANGED <<literatureVars, activeTab, server, backendVars>>

\* runResearch, lines 105-111: axios.post settles
ResearchSettles ==
    /\ IsSome(researchRequest)
    /\ \/ \E data \in ResearchResponses(Get(researchRequest).hypothesis) :
            /\ result' = Some(data)
            /\ UNCHANGED error
       \/ \E err \in AxiosErrors :
            /\ error' = Some(ErrorMsg(err))
            /\ UNCHANGED result
    /\ isRunning' = FALSE
    /\ researchRequest' = None
    /\ settled' = settled \cup {"research"}
    /\ UNCHANGED <<hypothesis, literatureVars, activeTab, alerts, server, backendVars>>

\* runLiteratureDiscovery, lines 114-130: a click on the button of the
\* literature tab, up to the await of axios.post
RunLiteratureDiscovery ==
    /\ server = "frontend"
    /\ activeTab = "literature" /\ ~isLiteratureRunning
    /\ IF Trim(literatureHypothesis) = ""
       THEN /\ alerts < MaxAlerts
            /\ alerts' = alerts + 1
            /\ UNCHANGED <<literatureVars, settled>>
       ELSE /\ isLiteratureRunning' = TRUE
            /\ literatureError' = None
            /\ literatureResult' = None
            /\ literatureRequest' =
                  Some([hypothesis |-> literatureHypothesis, min_variables |-> 10,
                        max_papers |-> 20, max_iterations |-> 3])
            /\ UNCHANGED <<literatureHypothesis, settled, alerts>>
    /\ UNCHANGED <<researchVars, activeTab, server, backendVars>>

\* runLiteratureDiscovery, lines 132-138: axios.post settles
LiteratureSettles ==
    /\ IsSome(literatureRequest)
    /\ \/ \E data \in LiteratureResponses(Get(literatureRequest).hypothesis) :
            /\ literatureResult' = Some(data)
            /\ UNCHANGED literatureError
       \/ \E err \in AxiosErrors :
            /\ literatureError' = Some(ErrorMsg(err))
            /\ UNCHANGED literatureResult
    /\ isLiteratureRunning' = FALSE
    /\ literatureRequest' = None
    /\ settled' = settled \cup {"literature"}
    /\ UNCHANGED <<literatureHypothesis, researchVars, activeTab, alerts, server, backendVars>>

----------------------------------------------------------------------------
(* Environment                                                             *)

\* the clock advances between calls, by the row-cache ttl or past the
\* catalog ttl (against ttls of an hour and more a call takes no time)
TickSteps == {RowCacheTtl, 2 * CatalogTtl}
Tick(d) ==
    /\ ticks < MaxTicks
    /\ \A p \in DOMAIN task : CanStart(p)
    /\ now' = now + d
    /\ ticks' = ticks + 1
    /\ UNCHANGED <<server, appVars, nhanesVars, apiKey, release, endpointsFile, rowCache, datasetsFile, dataFiles, task>>

\* the process dies with calls in flight: the calls are lost, the cache
\* directory stays as it is
Crash ==
    /\ \E p \in DOMAIN task : task[p].pc \notin {"idle", "done", "thrown"}
    /\ task' = [p \in DOMAIN task |-> IdleTask]
    /\ UNCHANGED <<now, ticks, server, appVars, nhanesVars, apiKey, release, endpointsFile, rowCache, datasetsFile, dataFiles>>

\* a new release of the catalog is deployed over the same cache directory:
\* the version literals change and the process restarts
BumpVersion ==
    /\ release < MaxReleases
    /\ release' = release + 1
    /\ task' = [p \in DOMAIN task |-> IdleTask]
    /\ UNCHANGED <<now, ticks, server, appVars, nhanesVars, apiKey, endpointsFile, rowCache, datasetsFile, dataFiles>>

----------------------------------------------------------------------------
(* Specification                                                           *)

\* the constructor of the server's client: an empty cache directory, and for
\* SeerClient an api key or none
InitWith(tasks) ==
    /\ now = 0
    /\ ticks = 0
    /\ server \in {"seer", "physionet"}
    /\ apiKey \in (IF server = "seer" THEN BOOLEAN ELSE {FALSE})
    /\ release = 0
    /\ endpointsFile = None
    /\ rowCache = [k \in SeerCacheKeys |-> None]
    /\ datasetsFile = None
    /\ dataFiles = [k \in DataFileKeys |-> None]
    /\ task = [p \in tasks |-> IdleTask]
    /\ NhanesInit(NhTasks)
    /\ AppInit

Init == InitWith(Tasks)

Next ==
    \/ \E p \in DOMAIN task, q \in SeerQueries : SeerQuery(p, q)
    \/ \E p \in DOMAIN task : SeerEndpointsWritten(p)
    \/ \E p \in DOMAIN task : SeerFetched(p)
    \/ \E p \in DOMAIN task : SeerRowsWritten(p)
    \/ \E p \in DOMAIN task, q \in CatalogQueries : PhysCatalog(p, q)
    \/ \E p \in DOMAIN task : PhysDatasetsWritten(p)
    \/ \E p \in DOMAIN task, q \in FetchQueries : PhysFetch(p, q)
    \/ \E p \in DOMAIN task : PhysLoadFile(p)
    \/ \E p \in DOMAIN task : PhysGenerate(p)
    \/ \E p \in DOMAIN task : PhysFileWritten(p)
    \/ \E p \in DOMAIN task, r \in SeerToolRequests : SeerCallToolThrows(p, r)
    \/ \E p \in DOMAIN task, r \in PhysToolRequests : PhysCallToolThrows(p, r)
    \/ \E d \in TickSteps : Tick(d)
    \/ Crash
    \/ BumpVersion

\* calls that follow one another, the clock, crashes and releases
Spec == Init /\ [][Next]_vars

\* the SEER server alone, where the event loop runs every continuation
\* that is ready: a pending write or fetch settles, and the call goes on
InitSeer == InitWith(Tasks) /\ server = "seer"
NextSeer ==
    \/ \E p \in DOMAIN task, q \in SeerQueries : SeerQuery(p, q)
    \/ \E p \in DOMAIN task : SeerEndpointsWritten(p)
    \/ \E p \in DOMAIN task : SeerFetched(p)
    \/ \E p \in DOMAIN task : SeerRowsWritten(p)
    \/ \E p \in DOMAIN task, r \in SeerToolRequests : SeerCallToolThrows(p, r)
    \/ \E d \in TickSteps : Tick(d)
    \/ Crash
    \/ BumpVersion
Fairness ==
    \A p \in Tasks :
        /\ WF_vars(SeerEndpointsWritten(p))
        /\ WF_vars(SeerFetched(p))
        /\ WF_vars(SeerRowsWritten(p))
SpecFair == InitSeer /\ [][NextSeer]_vars /\ Fairness

InitConc == InitWith(ConcTasks)

NextConc ==
    \/ \E p \in DOMAIN task, q \in ConcSeerQueries : SeerQuery(p, q)
    \/ \E p \in DOMAIN task : SeerEndpointsWritten(p)
    \/ \E p \in DOMAIN task : SeerFetched(p)
    \/ \E p \in DOMAIN task : SeerRowsWritten(p)
    \/ \E p \in DOMAIN task, q \in ConcCatalogQueries : PhysCatalog(p, q)
    \/ \E p \in DOMAIN task : PhysDatasetsWritten(p)
    \/ \E p \in DOMAIN task, q \in ConcFetchQueries : PhysFetch(p, q)
    \/ \E p \in DOMAIN task : PhysLoadFile(p)
    \/ \E p \in DOMAIN task : PhysGenerate(p)
    \/ \E p \in DOMAIN task : PhysFileWritten(p)
    \/ \E p \in DOMAIN task, r \in SeerToolRequests : SeerCallToolThrows(p, r)
    \/ \E p \in DOMAIN task, r \in PhysToolRequests : PhysCallToolThrows(p, r)
    \/ Crash

\* two overlapping calls of one client, and crashes
SpecConc == InitConc /\ [][NextConc]_vars

\* PhysioNetClient alone, one call after another, and crashes
InitPhys == InitWith(Tasks) /\ server = "physionet"
NextPhys ==
    \/ \E p \in DOMAIN task, q \in CatalogQueries : PhysCatalog(p, q)
    \/ \E p \in DOMAIN task : PhysDatasetsWritten(p)
    \/ \E p \in DOMAIN task, q \in FetchModeQueries : PhysFetch(p, q)
    \/ \E p \in DOMAIN task : PhysLoadFile(p)
    \/ \E p \in DOMAIN task : PhysGenerate(p)
    \/ \E p \in DOMAIN task : PhysFileWritten(p)
    \/ Crash
SpecPhys == InitPhys /\ [][NextPhys]_vars

\* the frontend: the page is loaded, then clicks, typing and responses
InitApp ==
    /\ now = 0 /\ ticks = 0 /\ server = "frontend" /\ apiKey = FALSE /\ release = 0
    /\ endpointsFile = None
    /\ rowCache = [k \in SeerCacheKeys |-> None]
    /\ datasetsFile = None
    /\ dataFiles = [k \in DataFileKeys |-> None]
    /\ task = [p \in Tasks |-> IdleTask]
    /\ NhanesInit(NhTasks)
    /\ AppInit
NextApp ==
    \/ \E tab \in {"nhanes", "literature"} : SetActiveTab(tab)
    \/ \E text \in HypothesisTexts : SetHypothesis(text)
    \/ \E text \in HypothesisTexts : SetLiteratureHypothesis(text)
    \/ RunResearch
    \/ ResearchSettles
    \/ RunLiteratureDiscovery
    \/ LiteratureSettles
SpecApp == InitApp /\ [][NextApp]_vars

\* the normalizers applied to raw queries
NextNormalize ==
    \/ \E p \in DOMAIN task, tool \in {"seer", "catalog", "fetch"} :
          \E raw \in RawQueries(tool) : Normalize(p, tool, raw)
    \/ \E p \in DOMAIN task : NormalizeAgain(p)
SpecNormalize == Init /\ [][NextNormalize]_vars

\* the NHANES server, one tool call at a time
InitNhanesWith(calls) ==
    /\ now = 0 /\ ticks = 0 /\ server = "nhanes" /\ apiKey = FALSE /\ release = 0
    /\ endpointsFile = None
    /\ rowCache = [k \in SeerCacheKeys |-> None]
    /\ datasetsFile = None
    /\ dataFiles = [k \in DataFileKeys |-> None]
    /\ task = [p \in Tasks |-> IdleTask]
    /\ NhanesInit(calls)
    /\ AppInit
InitNhanes == InitNhanesWith(NhTasks)
NextNhanes ==
    \/ \E p \in DOMAIN nhCall, req \in NhRequests : NhCallTool(p, req)
    \/ \E p \in DOMAIN nhCall : LoadVariablesForCycle(p)
    \/ \E p \in DOMAIN nhCall : MetadataLoadEnds(p)
SpecNhanes == InitNhanes /\ [][NextNhanes]_vars

\* two tool calls of the NHANES server that overlap at their awaits
InitNhanesConc == InitNhanesWith(NhConcTasks)
NextNhanesConc ==
    \/ \E p \in DOMAIN nhCall, req \in NhConcRequests : NhCallTool(p, req)
    \/ \E p \in DOMAIN nhCall : LoadVariablesForCycle(p)
    \/ \E p \in DOMAIN nhCall : MetadataLoadEnds(p)
SpecNhanesConc == InitNhanesConc /\ [][NextNhanesConc]_vars

----------------------------------------------------------------------------
(* Properties                                                              *)

Returned(p) == task[p].pc = "done"
ResultOf(p) == Get(task[p].result)

\* what a Result carries, whichever tool returned it
HasRowSet(op, r) == IF op = "catalog" THEN IsSome(r.datasets) ELSE IsSome(r.data)
RowSetOf(op, r) == IF op = "catalog" THEN Get(r.datasets) ELSE Get(r.data)
HasEstimate(op, r) ==
    IF op = "catalog" THEN IsSome(r.estimated_count) ELSE IsSome(r.estimated_rows)
HasActual(op, r) ==
    IF op = "catalog" THEN IsSome(r.actual_count) ELSE IsSome(r.actual_rows)
ActualOf(op, r) ==
    IF op = "catalog" THEN Get(r.actual_count) ELSE Get(r.actual_rows)
HasErrors(r) == IsSome(r.errors) /\ Len(Get(r.errors)) > 0
ErrorOf(r) == Get(r.errors)[1]
IsDryRun(p) == task[p].query[1].dry_run = Some(TRUE)

\* C1: every Result returned by query, fetch or catalog satisfies exactly one
\* of: an estimated count is present; an actual count is present; errors is
\* non-empty and neither count is present.  A Result with non-empty errors
\* has no row-set and no counts.
C1_ResultShape ==
    \A p \in DOMAIN task :
        Returned(p) =>
            LET op == task[p].op
                r  == ResultOf(p)
                cases == << HasEstimate(op, r), HasActual(op, r),
                            HasErrors(r) /\ ~HasEstimate(op, r) /\ ~HasActual(op, r) >>
            IN  /\ Cardinality({i \in 1..3 : cases[i]}) = 1
                /\ HasErrors(r) =>
                      ~HasRowSet(op, r) /\ ~HasEstimate(op, r) /\ ~HasActual(op, r)

\* a call that raised inside the pipeline (a cache file that does not
\* parse) has returned its error Result
C1_Witness ==
    \E p \in DOMAIN task :
        Returned(p) /\ HasErrors(ResultOf(p)) /\ ErrorOf(ResultOf(p)) = JsonParseError

\* C2: a dry_run=true request never gets a row-set or an actual count; a
\* successful request without dry_run never gets an estimated count; a
\* successful dry run carries an estimated count.
C2_DryRunContract ==
    \A p \in DOMAIN task :
        Returned(p) =>
            LET op == task[p].op
                r  == ResultOf(p)
            IN  /\ IsDryRun(p) => ~HasRowSet(op, r) /\ ~HasActual(op, r)
                /\ ~IsDryRun(p) /\ ~HasErrors(r) => ~HasEstimate(op, r)
                /\ IsDryRun(p) /\ ~HasErrors(r) => HasEstimate(op, r)

\* a dry run of fetch has returned its estimate
C2_Witness ==
    \E p \in DOMAIN task :
        /\ Returned(p) /\ task[p].op = "fetch" /\ IsDryRun(p)
        /\ ~HasErrors(ResultOf(p))
        /\ ResultOf(p).estimated_rows = Some(650000 + 2273)

\* C3: on every successful call without dry_run the actual count equals the
\* number of rows returned, and that number is at most the limit of the
\* (normalized) query.
C3_ActualCountWithinLimit ==
    \A p \in DOMAIN task :
        Returned(p) /\ ~IsDryRun(p) /\ ~HasErrors(ResultOf(p)) =>
            LET op == task[p].op
                r  == ResultOf(p)
            IN  /\ ActualOf(op, r) = Len(RowSetOf(op, r))
                /\ Len(RowSetOf(op, r)) <= Get(task[p].nq).limit

\* C4: fetch of a dataset that is not on the allowlist fails with the
\* not-allowlisted error before any metadata lookup, file generation, cache
\* read or write, or network call, with and without dry_run.
C4_AllowlistFirst ==
    \A p \in DOMAIN task :
        task[p].op = "fetch" /\ task[p].query[1].dataset \notin Allowlist =>
            /\ Returned(p)
            /\ ResultOf(p).errors =
                  Some(<< <<"Dataset '", task[p].query[1].dataset, "' is not in the allowlist">> >>)
            /\ task[p].fx = {} /\ task[p].reads = {} /\ task[p].gen = None

\* a dry run of fetch on a dataset off the allowlist has returned
C4_Witness ==
    \E p \in DOMAIN task :
        /\ Returned(p) /\ task[p].op = "fetch" /\ IsDryRun(p)
        /\ task[p].query[1].dataset = "unknown-id"
        /\ HasErrors(ResultOf(p))

\* C5: with an api key, query never returns an error that comes from a
\* network, parse or cache-file-read exception: its only errors are unknown
\* dataset, not allowlisted, missing parameter and invalid parameter value.
SeerTerminalErrors == {"Unknown endpoint: ", "Missing required parameters: "}
C5_OnlyTerminalErrors ==
    \A p \in DOMAIN task :
        Returned(p) /\ task[p].op = "seer" /\ apiKey /\ HasErrors(ResultOf(p)) =>
            ErrorOf(ResultOf(p))[1] \in SeerTerminalErrors

\* C6: a call that reads a cache file finds it absent or complete, never
\* partially written, also after a write was interrupted.
C6_NoPartialRead ==
    \A p \in DOMAIN task : \A r \in task[p].reads : r.complete

\* C7: no cache lookup serves an entry older than its ttl (1 hour for SEER
\* rows, 24 hours for the catalog files; the row files of PhysioNet are held
\* to the longer of the two), and a row entry within its ttl is served
\* without a fetch or a regeneration.
TtlOf(cache) == IF cache = "rows" THEN RowCacheTtl ELSE CatalogTtl
C7_NoStaleHit ==
    \A p \in DOMAIN task : \A r \in task[p].reads :
        r.hit /\ r.complete =>
                 /\ r.age <= TtlOf(r.cache)
                 /\ r.cache = "rows" => task[p].fx \cap {"network", "generate"} = {}

\* C8: when a call without dry_run succeeds and the same call is issued
\* again within the ttl, the second call is served from the cache without
\* a live fetch and returns the same Result up to request_timestamp.
Timeless(r) == [r EXCEPT !.provenance.request_timestamp = 0]
C8_RepeatServedFromCache ==
    \A p \in DOMAIN task :
        ( /\ Returned(p) /\ task[p].op \in {"seer", "fetch"} /\ ~IsDryRun(p)
          /\ IsSome(task[p].prev) /\ ~HasErrors(Get(task[p].prev))
          /\ ResultOf(p).provenance.request_timestamp
                - Get(task[p].prev).provenance.request_timestamp < RowCacheTtl )
        => /\ \E r \in task[p].reads : r.hit /\ r.cache \in {"rows", "data"}
           /\ task[p].fx \cap {"network", "generate"} = {}
           /\ ~HasErrors(ResultOf(p))
           /\ Timeless(ResultOf(p)) = Timeless(Get(task[p].prev))

\* C9: no row entry written under an earlier dataset version is returned
\* as a hit after the version was bumped.
C9_VersionInKey ==
    \A p \in DOMAIN task : \A r \in task[p].reads :
        r.hit /\ r.complete /\ r.cache \in {"rows", "data"} => r.rel = r.cur

\* C10: two invocations of a synthetic generator with the same normalized
\* query and descriptor yield the same rows.
C10_GeneratorDeterministic ==
    \A p, q \in DOMAIN task :
        ( /\ IsSome(task[p].gen) /\ IsSome(task[q].gen)
          /\ Get(task[p].gen).gen = Get(task[q].gen).gen
          /\ Get(task[p].gen).key = Get(task[q].gen).key )
        => Get(task[p].gen).out = Get(task[q].gen).out

\* C11: a query for a known endpoint that omits required parameters fails
\* with the missing-parameter error naming exactly the omitted ones, before
\* any row estimate, row-cache access, live fetch or generation, with and
\* without dry_run; a query that supplies them all never gets this error.
C11_MissingParameters ==
    \A p \in DOMAIN task :
        ( /\ Returned(p) /\ task[p].op = "seer"
          /\ IsSome(FindEndpoint(SeerEndpoints, task[p].query[1].endpoint)) )
        => LET endpoint == Get(FindEndpoint(SeerEndpoints, task[p].query[1].endpoint))
               missing  == MissingParams(endpoint, Get(task[p].nq))
               r        == ResultOf(p)
           IN  /\ missing # <<>> =>
                     /\ r.errors = Some(<< <<"Missing required parameters: ", missing>> >>)
                     /\ task[p].fx \cap {"estimate", "network", "generate"} = {}
                     /\ \A rd \in task[p].reads : rd.cache # "rows"
               /\ missing = <<>> =>
                     ~(HasErrors(r) /\ ErrorOf(r)[1] = "Missing required parameters: ")

\* C12: a query that gives a parameter with enum_values in the endpoint a
\* value outside them fails with an error and carries no data and no
\* counts.
OutOfDomain(endpoint, nq) ==
    { param \in DOMAIN nq.params \cap DOMAIN endpoint.enum_values :
        nq.params[param] \notin endpoint.enum_values[param] }
C12_EnumValidation ==
    \A p \in DOMAIN task :
        ( /\ Returned(p) /\ task[p].op = "seer"
          /\ IsSome(FindEndpoint(SeerEndpoints, task[p].query[1].endpoint))
          /\ OutOfDomain(Get(FindEndpoint(SeerEndpoints, task[p].query[1].endpoint)),
                         Get(task[p].nq)) # {} )
        => LET r == ResultOf(p)
           IN  /\ HasErrors(r)
               /\ ~HasRowSet("seer", r) /\ ~HasEstimate("seer", r) /\ ~HasActual("seer", r)

\* C13: after normalization limit and offset are non-negative and limit is
\* at most the maximum of the tool (the code names none; the default limit
\* is the largest limit it names), whatever raw limit and offset were
\* given; so the number of rows returned is between 0 and that maximum.
LimitCeiling(op) ==
    CASE op = "seer"    -> SeerDefaultLimit
      [] op = "catalog" -> CatalogDefaultLimit
      [] OTHER          -> FetchDefaultLimit
C13_LimitOffsetClamped ==
    \A p \in DOMAIN task :
        IsSome(task[p].nq) =>
            LET nq == Get(task[p].nq)
                op == task[p].op
            IN  /\ nq.limit >= 0 /\ nq.offset >= 0
                /\ nq.limit <= LimitCeiling(op)
                /\ Returned(p) /\ HasRowSet(op, ResultOf(p)) =>
                      Len(RowSetOf(op, ResultOf(p))) <= LimitCeiling(op)

\* C14: for a fixed query and limit L > 0 the pages at offsets 0, L, 2L, ...
\* partition the row-set R of the query: each page is R[offset : offset+L],
\* so it has L rows unless it is the last, and the rows follow one another
\* with no gap and no duplicate.  R is the rows the query has when no limit
\* is given: the cached response, or the synthetic rows 1..N.
PopulationSize(p) ==
    LET nq == Get(task[p].nq)
    IN  IF IsSome(task[p].gen)
        THEN MockSampleSize([nq EXCEPT !.limit = SeerDefaultLimit])
        ELSE Len(ReadJson(rowCache[SeerCacheKey(nq)]))
C14_PaginationPartitions ==
    \A p \in DOMAIN task :
        ( /\ Returned(p) /\ task[p].op = "seer" /\ ~IsDryRun(p)
          /\ ~HasErrors(ResultOf(p))
          /\ Get(task[p].nq).limit > 0 /\ Get(task[p].nq).offset >= 0 )
        => LET nq   == Get(task[p].nq)
               page == Get(ResultOf(p).data)
           IN  /\ Len(page) = Min(nq.limit, Max(0, PopulationSize(p) - nq.offset))
               /\ \A i \in 1..Len(page) : page[i].record_id = nq.offset + i

\* C15: a query without dry_run that matches zero rows is a success, not an
\* error: data is empty, the actual count is 0, there are no errors and the
\* warnings carry the no-data message.  A fetch matches zero rows when the
\* files it selects hold no rows, that is when its row estimate is 0.
C15_ZeroRowsIsSuccess ==
    \A p \in DOMAIN task :
        Returned(p) /\ ~IsDryRun(p) /\ task[p].op \in {"seer", "fetch"} =>
            LET r  == ResultOf(p)
                nq == Get(task[p].nq)
            IN  /\ ~HasErrors(r) /\ Len(Get(r.data)) = 0 =>
                      /\ r.actual_rows = Some(0)
                      /\ IsSome(r.warnings) /\ NoDataWarning \in SeqToSet(Get(r.warnings))
                /\ ( /\ task[p].op = "fetch"
                     /\ ~IsSome(FetchResolve(nq).err)
                     /\ EstimateDatasetRows(Get(FetchResolve(nq).dataset), nq) = 0 )
                   => /\ ~HasErrors(r)
                      /\ r.data = Some(<<>>)

\* C16: the sha256_hash of the provenance is present on every successful
\* result without dry_run, where it is the hash of the returned
\* (paginated) row-set, and is absent from every dry-run result and every
\* error result.
C16_ContentHash ==
    \A p \in DOMAIN task :
        Returned(p) =>
            LET op == task[p].op
                r  == ResultOf(p)
            IN  /\ ~IsDryRun(p) /\ ~HasErrors(r) =>
                      r.provenance.sha256_hash = Some(Sha256Of(RowSetOf(op, r)))
                /\ IsDryRun(p) \/ HasErrors(r) => r.provenance.sha256_hash = None

\* C17: a call that names a dataset or endpoint that is not in the catalog
\* fails with errors = ["Unknown dataset: <id>"], no columns, no data and no
\* counts; so does fetch for an id that is in neither the catalog nor the
\* allowlist.
NotInCatalog(p) ==
    \/ /\ task[p].op = "seer"
       /\ ~IsSome(FindEndpoint(SeerEndpoints, task[p].query[1].endpoint))
    \/ /\ task[p].op = "fetch"
       /\ ~IsSome(FindDataset(task[p].query[1].dataset))
NamedId(p) ==
    IF task[p].op = "seer" THEN task[p].query[1].endpoint ELSE task[p].query[1].dataset
C17_UnknownDataset ==
    \A p \in DOMAIN task :
        Returned(p) /\ NotInCatalog(p) =>
            LET op == task[p].op
                r  == ResultOf(p)
            IN  /\ r.errors = Some(<< <<"Unknown dataset: ", NamedId(p)>> >>)
                /\ r.columns = {}
                /\ ~HasRowSet(op, r) /\ ~HasEstimate(op, r) /\ ~HasActual(op, r)

\* C18: no failure leaves a tool call as an exception: every request,
\* also one whose arguments fail validation in the handler or that raises
\* inside the client, ends in a Result, and a failed one carries the
\* provenance with the echoed request and the request timestamp and a
\* non-empty errors array.
C18_NoExceptionEscapes ==
    \A p \in DOMAIN task :
        /\ task[p].pc # "thrown"
        /\ Returned(p) /\ HasErrors(ResultOf(p)) =>
              /\ ResultOf(p).provenance.request_params = task[p].query
              /\ ResultOf(p).provenance.request_timestamp \in 0..now

\* C19: in fetch with a non-empty list of requested columns every returned
\* row holds only requested columns that exist in the data, the others
\* being dropped without an error, and the columns of the Result are the
\* columns actually applied: never a requested column that the data do
\* not have, also when the returned page is empty.
SourceColumns(p) ==
    LET nq      == Get(task[p].nq)
        dataset == Get(FetchResolve(nq).dataset)
    IN  UNION { SeqToSet(FileHeaders(TargetFiles(dataset, nq)[i])) :
                  i \in 1..Len(TargetFiles(dataset, nq)) }
C19_ProjectedColumns ==
    \A p \in DOMAIN task :
        ( /\ Returned(p) /\ task[p].op = "fetch" /\ ~IsDryRun(p)
          /\ ~HasErrors(ResultOf(p))
          /\ Get(task[p].nq).columns # <<>> )
        => LET r         == ResultOf(p)
               requested == SeqToSet(Get(task[p].nq).columns)
           IN  /\ \A i \in 1..Len(Get(r.data)) :
                     DOMAIN Get(r.data)[i] \subseteq requested \cap SourceColumns(p)
               /\ r.columns \subseteq requested \cap SourceColumns(p)

\* C20: every query ends with a Result after a bounded number of live
\* fetch attempts: fetch(url) is tried once per call, a call that tried it
\* and failed returns synthetic rows and no error, and a call in progress
\* always comes to its end.
MaxFetchAttempts == 1
InProgress(p) == task[p].pc \notin {"idle", "done", "thrown"}
FetchAttemptsBounded ==
    \A p \in Tasks :
        /\ task[p].attempts <= MaxFetchAttempts
        /\ Returned(p) /\ task[p].attempts > 0 =>
              /\ ~HasErrors(ResultOf(p))
              /\ "cache_write" \notin task[p].fx =>
                    /\ IsSome(task[p].gen)
                    /\ ResultOf(p).data =
                          Some(SeerApplyPagination(Get(task[p].gen).out, Get(task[p].nq)))
C20_BoundedRetries ==
    /\ []FetchAttemptsBounded
    /\ \A p \in Tasks : InProgress(p) ~> ~InProgress(p)

\* a call whose fetch failed has returned synthetic rows
C20_Witness ==
    \E p \in Tasks :
        /\ Returned(p) /\ task[p].attempts = 1 /\ "cache_write" \notin task[p].fx
        /\ IsSome(task[p].gen) /\ Len(Get(ResultOf(p).data)) > 0

\* C21: the handling of a dry run of query or fetch leaves every row-cache
\* file (rowCache of SEER, dataFiles of PhysioNet) as it is, reads none of
\* them, and makes no live fetch and no synthetic generation.
DryRunStep(p) ==
    /\ task'[p] # task[p]
    /\ task'[p].op \in {"seer", "fetch"}
    /\ IsSome(task'[p].query) /\ task'[p].query[1].dry_run = Some(TRUE)
DryRunTouchesNoRows ==
    \A p \in DOMAIN task :
        task[p].op \in {"seer", "fetch"} /\ IsSome(task[p].query) /\ IsDryRun(p) =>
            /\ \A r \in task[p].reads : r.cache \notin {"rows", "data"}
            /\ task[p].fx \cap {"network", "generate"} = {}
            /\ task[p].gen = None /\ task[p].attempts = 0
C21_DryRunLeavesRowCache ==
    /\ []DryRunTouchesNoRows
    /\ [][\A p \in DOMAIN task : DryRunStep(p) => UNCHANGED <<rowCache, dataFiles>>]_vars

\* a dry run has returned its estimate while the row cache holds a fresh,
\* complete file under the key of the query
C21_Witness ==
    \E p \in DOMAIN task :
        /\ Returned(p) /\ task[p].op = "seer" /\ IsDryRun(p)
        /\ ~HasErrors(ResultOf(p))
        /\ PathExists(rowCache[SeerCacheKey(Get(task[p].nq))])
        /\ Get(rowCache[SeerCacheKey(Get(task[p].nq))]).complete
        /\ Age(rowCache[SeerCacheKey(Get(task[p].nq))]) < RowCacheTtl

\* C22: nhanes_get_variable_details reports the cycles the variable appears
\* in: when the loaded metadata hold the variable of the given category and
\* file for a set C of cycles, the cycles of the answer contain all of C.
CyclesLoadedFor(category, fileName, variableName) ==
    LET variables == GetVariablesForFile(variableMetadata, category, fileName)
    IN  UNION { SeqToSet(variables[i].cycles) :
                  i \in { j \in 1..Len(variables) : variables[j].variableName = variableName } }
C22_AllCyclesReported ==
    \A p \in DOMAIN nhCall :
        ( /\ nhCall[p].pc = "done"
          /\ Get(nhCall[p].request).name = "nhanes_get_variable_details"
          /\ ~Get(nhCall[p].result).isError )
        => LET req == Get(nhCall[p].request)
           IN  CyclesLoadedFor(Get(req.category), Get(req.file_name), Get(req.variable_name))
                   \subseteq SeqToSet(Get(nhCall[p].result).content.cycles)

\* C23: the catalog metadata are loaded once in the life of the process and
\* are never seen half loaded: whatever the interleaving of the tool calls,
\* loadAllMetadata runs at most once, no call computes its answer while a
\* load is still storing rows, and no variable entry is stored twice.
NoDuplicateEntries ==
    \A k \in DOMAIN variableMetadata :
        \A i, j \in 1..Len(variableMetadata[k]) :
            ( /\ variableMetadata[k][i].variableName = variableMetadata[k][j].variableName
              /\ variableMetadata[k][i].cycles = variableMetadata[k][j].cycles )
            => i = j
C23_MetadataLoadedOnce ==
    /\ loads <= 1
    /\ \A p \in DOMAIN nhCall : ~nhCall[p].partial
    /\ NoDuplicateEntries

\* C24: in live mode the rows of the synthetic fallback are never written
\* to the row cache: a row-cache file is written only by a call whose
\* fetch(url) returned OK and decoded, with the rows of that response; so
\* after a failed fetch the file of the key is still a miss, and the next
\* identical query tries the live fetch again.
FallbackServed(p) ==
    /\ Returned(p) /\ task[p].op = "seer"
    /\ task[p].attempts = 1 /\ IsSome(task[p].gen)
RowCacheWriteIsLive ==
    \A k \in SeerCacheKeys :
        rowCache'[k] # rowCache[k] =>
            \E p \in DOMAIN task :
                /\ task[p].pc \in {"seer_fetch", "seer_rows_write"}
                /\ k = SeerCacheKey(Get(task[p].nq))
                /\ "network" \in task[p].fx
                /\ task'[p].gen = None /\ "generate" \notin task'[p].fx
                /\ Get(rowCache'[k]).complete =>
                      /\ Get(rowCache'[k]).content = Get(task[p].pending)
                      /\ Get(rowCache'[k]).content \in LiveDataSets
RetriesAfterFallback ==
    \A p \in DOMAIN task :
        ( /\ FallbackServed(p)
          /\ task'[p] # task[p] /\ task'[p].query = task[p].query
          /\ task'[p].pc # "thrown" )
        => \/ task'[p].pc = "seer_endpoints_write"
           \/ task'[p].attempts = 1 /\ "network" \in task'[p].fx
C24_FallbackNotCached ==
    /\ [](\A p \in DOMAIN task :
             FallbackServed(p) =>
                 LET f == rowCache[SeerCacheKey(Get(task[p].nq))]
                 IN  ~(PathExists(f) /\ Age(f) < RowCacheTtl))
    /\ [][RowCacheWriteIsLive]_vars
    /\ [][RetriesAfterFallback]_vars

\* a query whose fetch failed was issued again, tried the fetch again and
\* got synthetic rows again, and there is still no row-cache file
C24_Witness ==
    \E p \in DOMAIN task :
        /\ FallbackServed(p) /\ apiKey
        /\ IsSome(task[p].prev) /\ ~HasErrors(Get(task[p].prev))
        /\ rowCache[SeerCacheKey(Get(task[p].nq))] = None

\* C25: in fetch the dry_run flag decides whether a query is an error
\* exactly when the dataset is on the allowlist and in the catalog and no
\* file is selected (no file has a name of the files list, or the dataset
\* has no binary, csv or tsv file): the dry run succeeds with estimated_rows
\* 0 and the fetch fails with 'No suitable data files found'.  For every
\* other query both modes agree: they fail when the dataset does not
\* resolve and succeed otherwise.
SelectsNoFile(nq) ==
    /\ ~IsSome(FetchResolve(nq).err)
    /\ TargetFiles(Get(FetchResolve(nq).dataset), nq) = <<>>
C25_DryRunChangesError ==
    \A p \in DOMAIN task :
        Returned(p) /\ task[p].op = "fetch" =>
            LET nq == Get(task[p].nq)
                r  == ResultOf(p)
            IN  IF SelectsNoFile(nq)
                THEN IF IsDryRun(p)
                     THEN ~HasErrors(r) /\ r.estimated_rows = Some(0)
                     ELSE r.errors = Some(<< <<"No suitable data files found">> >>)
                ELSE HasErrors(r) <=> IsSome(FetchResolve(nq).err)

\* a fetch that names a file the dataset does not have has failed, and the
\* file of the dataset that a fetch would read is in the cache
C25_Witness ==
    \E p \in DOMAIN task :
        /\ Returned(p) /\ task[p].op = "fetch" /\ ~IsDryRun(p)
        /\ Get(task[p].nq).files = <<"missing.dat">>
        /\ HasErrors(ResultOf(p))
        /\ PathExists(dataFiles[<<"mitdb", "100.dat">>])

\* C26: query resolves an endpoint only when the endpoint registry has it:
\* for the endpoint names that SeerQuerySchema accepts and the registry
\* does not define ('sites', 'demographics') every call returns the error
\* 'Unknown endpoint: <name>' and no data, no estimate and no actual count.
RegistryNames == { SeerEndpoints[i].name : i \in 1..Len(SeerEndpoints) }
C26_UnregisteredEndpoint ==
    \A p \in DOMAIN task :
        ( /\ Returned(p) /\ task[p].op = "seer"
          /\ task[p].query[1].endpoint \in SeerEndpointEnum \ RegistryNames )
        => LET r == ResultOf(p)
           IN  /\ r.errors = Some(<< <<"Unknown endpoint: ", task[p].query[1].endpoint>> >>)
               /\ ~HasRowSet("seer", r) /\ ~HasEstimate("seer", r) /\ ~HasActual("seer", r)

\* C27: fetch returns data or an estimate only for an id that is both on
\* the allowlist and in the catalog; an id on the allowlist without a
\* catalog entry gets the 'not found' error, with and without dry_run; and
\* every dataset that catalog returns has allowlisted = true and an id of
\* the allowlist.
C27_AllowlistAndCatalog ==
    \A p \in DOMAIN task :
        Returned(p) =>
            LET r == ResultOf(p)
                q == task[p].query[1]
            IN  /\ task[p].op = "fetch" =>
                      /\ ( HasRowSet("fetch", r) \/ HasEstimate("fetch", r)
                           \/ HasActual("fetch", r) )
                         => q.dataset \in Allowlist /\ IsSome(FindDataset(q.dataset))
                      /\ q.dataset \in Allowlist /\ ~IsSome(FindDataset(q.dataset))
                         => r.errors = Some(<< <<"Dataset '", q.dataset, "' not found">> >>)
                /\ task[p].op = "catalog" /\ HasRowSet("catalog", r) =>
                      \A i \in 1..Len(Get(r.datasets)) :
                          /\ Get(r.datasets)[i].allowlisted
                          /\ Get(r.datasets)[i].id \in Allowlist

\* a dry run of fetch for an id on the allowlist that the catalog does not
\* have has returned, after catalog has written datasets.json
C27_Witness ==
    \E p \in DOMAIN task :
        /\ Returned(p) /\ task[p].op = "fetch" /\ IsDryRun(p)
        /\ task[p].query[1].dataset = "chbmit"
        /\ HasErrors(ResultOf(p))
        /\ PathExists(datasetsFile) /\ Get(datasetsFile).complete

\* C28: normalization puts defaults in the place of absent fields only: a
\* limit and an offset that are given and not negative come out unchanged,
\* so a limit of 0 stays 0 and selects an empty page, and normalizing a
\* normalized query gives an equal query.
SomeRows == <<1, 2, 3>>
C28_NormalizeKeepsValues ==
    \A p \in DOMAIN task :
        task[p].pc \in {"normalized", "renormalized"} =>
            LET raw == task[p].query[1]
                nq  == Get(task[p].nq)
            IN  /\ IsSome(raw.limit) /\ Get(raw.limit) >= 0 => nq.limit = Get(raw.limit)
                /\ IsSome(raw.offset) /\ Get(raw.offset) >= 0 => nq.offset = Get(raw.offset)
                /\ raw.limit = Some(0) => Slice(SomeRows, nq.offset, nq.offset + nq.limit) = <<>>
                /\ task[p].pc = "renormalized" => Get(task[p].result) = nq

\* C29: every successful dry run of query and of fetch carries the warning
\* 'No data found matching the specified criteria', whatever its estimate
\* (the warning is computed from the empty row-set passed for a dry run);
\* a success without dry_run carries it exactly when the returned page is
\* empty.
C29_DryRunWarning ==
    \A p \in DOMAIN task :
        Returned(p) /\ task[p].op \in {"seer", "fetch"} /\ ~HasErrors(ResultOf(p)) =>
            LET r == ResultOf(p)
            IN  IF IsDryRun(p)
                THEN r.warnings = Some(<<NoDataWarning>>)
                ELSE IF Len(Get(r.data)) = 0
                THEN r.warnings = Some(<<NoDataWarning>>)
                ELSE r.warnings = None

\* a dry run of query with a positive estimate has returned with the warning
C29_Witness ==
    \E p \in DOMAIN task :
        /\ Returned(p) /\ task[p].op = "seer" /\ IsDryRun(p)
        /\ ~HasErrors(ResultOf(p))
        /\ Get(ResultOf(p).estimated_rows) > 0
        /\ IsSome(ResultOf(p).warnings)

\* what a flow shows: in flight, the flag is true and result and error are
\* null; settled, the flag is false and exactly one of the two is set;
\* before its first run, the flag is false and both are null
FlowShows(request, running, res, err, flow) ==
    IF IsSome(request)
    THEN running /\ res = None /\ err = None
    ELSE /\ ~running
         /\ IF flow \in settled
            THEN IsSome(res) # IsSome(err)
            ELSE res = None /\ err = None
\* the fields of a flow the page shows
researchShown == <<result, error, isRunning>>
literatureShown == <<literatureResult, literatureError, isLiteratureRunning>>
\* C30: in the frontend App, for runResearch and runLiteratureDiscovery and
\* any sequence of clicks and responses: while a run is in flight its running
\* flag is true and its result and error are null; once it settles the flag
\* is false and exactly one of result and error is non-null; a run started
\* with a blank hypothesis (the one that alerts) changes no state; and a step
\* of one flow leaves the other flow's result, error and running flag
\* unchanged.
C30_AppFlows ==
    /\ [](/\ FlowShows(researchRequest, isRunning, result, error, "research")
          /\ FlowShows(literatureRequest, isLiteratureRunning, literatureResult,
                       literatureError, "literature"))
    /\ [][/\ alerts' # alerts =>
                UNCHANGED <<researchVars, literatureVars, activeTab, settled>>
          /\ <<researchShown, researchRequest>>' # <<researchShown, researchRequest>> =>
                UNCHANGED <<literatureShown, literatureRequest>>
          /\ <<literatureShown, literatureRequest>>' # <<literatureShown, literatureRequest>> =>
                UNCHANGED <<researchShown, researchRequest>>]_vars
\* C30 witness: a research run has settled with its result, after a run with
\* a blank hypothesis, while the second literature run is in flight after a
\* first one that failed
C30_Witness ==
    /\ ~isRunning /\ IsSome(result) /\ error = None
    /\ alerts > 0
    /\ "literature" \in settled
    /\ isLiteratureRunning /\ IsSome(literatureRequest)

====
